---- MODULE Spec2Model ----
(***************************************************************************)
(* Model of the scrape pipeline of package fetch (src/fetch/cards.go):     *)
(* CardsStream and its goroutines (pageFetchWorker, pageScanWorker,        *)
(* extractWorker, the per-task closer), the reducers and aggregate.        *)
(* Channels are bounded FIFO sequences with a closed flag, sync.WaitGroup  *)
(* values are integer counters, and everything outside the package (the    *)
(* web sites, the proxy pool, goquery) is an environment that chooses the  *)
(* outcome of each request or parse.                                       *)
(***************************************************************************)
EXTENDS Integers, Sequences, FiniteSets, TLC

(* ------------------------------------------------------------------ *)
(* Program constants                                                   *)
(* ------------------------------------------------------------------ *)
\* cards.go:54
maxRetries == 3
\* cards.go:48 (5 in the source); workers per stage per task, and the
\* capacity of pageRespCh and of aggregate's cardCh
maxScrapeWorker == 1
\* cards.go:45 (10 in the source); extract workers, capacity of cardSelCh
maxLocalWorker == 2

(* ------------------------------------------------------------------ *)
(* Bounds of the model                                                 *)
(* ------------------------------------------------------------------ *)
\* most tasks a recent-release listing yields
MaxTasks == 2
\* largest last-page number the page-count probe reports
MaxLastPage == 2
\* most items one listing page lists
MaxItems == 2
\* most operations (the attempts for one dequeued page, for one detail
\* link or for one image; one listing parse; one extraction) that the
\* environment makes fail; a failing operation may fail at every attempt
MaxFaultyOps == 1
\* largest start-page offset
MaxPageStart == 2
\* most pages all tasks of a run have together
MaxTotalPages == 2

Tasks == 1..MaxTasks
Pages == 1..MaxLastPage
FetchIds == 1..maxScrapeWorker
ScanIds == 1..maxScrapeWorker
ExtractIds == 1..maxLocalWorker

\* cards.go:65-66, plus one language without a siteConfigs entry
English == "en"
Japanese == "ja"
Languages == {English, Japanese, "fr"}

\* cards.go:82-271 (siteConfigs): the keys and the supportTitleNumber field
siteConfigs ==
  [l \in {English, Japanese} |-> [supportTitleNumber |-> (l = English)]]

\* cards.go:508-526 (Config); ExpansionNumber, GetAllRarities and SetCode
\* only change the form values sent and are left out
Configs ==
  [Language : Languages, TitleNumber : 0..1, GetRecent : BOOLEAN,
   GetImages : BOOLEAN, PageStart : 0..MaxPageStart, Reverse : BOOLEAN]

\* the callers of CardsStream: the command line's "card" mode
\* (cmd/fetch.go:191-202), Cards and Boosters (through aggregate)
Callers == {"stream", "Cards"}

VARIABLES
  cfg,          \* the Config of the run
  caller,       \* who called CardsStream
  site,         \* site[p]: number of items listing page p lists
  pc,           \* position of the CardsStream goroutine
  ret,          \* "none" until CardsStream returns; then "nil" or the error
  ntasks,       \* len(scrapeTasks)
  ti,           \* task index of the current loop of CardsStream
  pi,           \* page index i of the enqueue loop
  lastPage,     \* lastPage[t]
  pageURLCh,    \* pageURLCh[t]: [buf, closed]
  pageRespCh,   \* pageRespCh[t]: [buf, closed]
  wgPageScan,   \* wgPageScan[t]
  wgScanner,
  wgCardSel,
  cardSelCh,    \* [buf, closed]
  cardCh,       \* [buf, closed]
  closer,       \* closer[t]: position of the goroutine of cards.go:627-634
  fw,           \* fw[t][w]: pageFetchWorker
  sw,           \* sw[t][w]: pageScanWorker
  ew,           \* ew[e]: extractWorker
  reducerPc,    \* the consumer of cardCh (reduce / writeCards)
  cards,        \* cardListReducer.cards
  callerPc,     \* position of the caller (aggregate)
  pool,         \* started: ProxyStart was called; out: clients checked
                \* out; netreq: some request has been sent
  faults,       \* operations that have failed so far
  panicked,     \* "" or the runtime panic that ended the process
  hist,         \* ghost counters, see HistInit
  unit          \* the card number or the item fragment that the functions
                \* of card.go are applied to on their own; NoUnit in a run
                \* of the pipeline

vars == <<cfg, caller, site, pc, ret, ntasks, ti, pi, lastPage, pageURLCh,
          pageRespCh, wgPageScan, wgScanner, wgCardSel, cardSelCh, cardCh,
          closer, fw, sw, ew, reducerPc, cards, callerPc, pool, faults,
          panicked, hist, unit>>

(* ------------------------------------------------------------------ *)
(* Channels                                                            *)
(* ------------------------------------------------------------------ *)
NoChan == [buf |-> <<>>, closed |-> FALSE, cap |-> 0, made |-> FALSE]
MakeChan(n) == [buf |-> <<>>, closed |-> FALSE, cap |-> n, made |-> TRUE]
\* a send proceeds when the buffer has room; on a closed channel it panics
CanSend(ch) == ch.made /\ (ch.closed \/ Len(ch.buf) < ch.cap)
Send(ch, v) == [ch EXCEPT !.buf = Append(@, v)]
CanRecv(ch) == ch.made /\ Len(ch.buf) > 0
Recv(ch) == [ch EXCEPT !.buf = Tail(@)]
\* range over the channel ends when it is closed and drained
Drained(ch) == ch.made /\ ch.closed /\ Len(ch.buf) = 0
Close(ch) == [ch EXCEPT !.closed = TRUE]

Running == panicked = ""

(* ------------------------------------------------------------------ *)
(* Initial state: the caller has made cardCh and started its consumer  *)
(* (cards.go:664-674, cmd/fetch.go:192-197) and calls CardsStream      *)
(* ------------------------------------------------------------------ *)
\* client: what became of the pool client of the latest attempt
IdleFetch == [pc |-> "unborn", link |-> 0, attempt |-> 0, outcome |-> "none",
              client |-> "none"]
IdleScan == [pc |-> "unborn", page |-> 0, idx |-> 0, retries |-> 0,
             held |-> FALSE]
\* faulted: extractData of the item panicked and recovered
IdleExtract == [pc |-> "unborn", item |-> <<>>, attempt |-> 0,
                faulted |-> FALSE]

\* ghost record of what has happened so far; no action reads it.
\* enqueued, forwarded, scanned, doneScan: per page, how often CardsStream
\* enqueued it, a fetch worker forwarded it, its listing was parsed, and
\* wgPageScan.Done() was called for it; skipped: iterations skipped by the
\* start page; requeued: a fetch worker put a page back; lateOk: the most
\* failed attempts that a successful fetch was preceded by; otherFault: a
\* failure other than of a listing-page request happened; faultedBy: the
\* extract worker whose extractData panicked (0: none); emitted: handles
\* put on cardSelCh; sent: <<handle, n>> for the n-th Card sent for handle
HistInit ==
  [enqueued    |-> [t \in Tasks |-> [p \in Pages |-> 0]],
   skipped     |-> [t \in Tasks |-> 0],
   forwarded   |-> [t \in Tasks |-> [p \in Pages |-> 0]],
   scanned     |-> [t \in Tasks |-> [p \in Pages |-> 0]],
   doneScan    |-> [t \in Tasks |-> [p \in Pages |-> 0]],
   requeued    |-> FALSE,
   lateOk      |-> 0,
   otherFault  |-> FALSE,
   faultedBy   |-> 0,
   emitted     |-> {},
   sent        |-> {}]

InitWith(c, cl, s) ==
  /\ cfg = c
  /\ caller = cl
  /\ site = s
  /\ pc = "start"
  /\ ret = "none"
  /\ ntasks = 0
  /\ ti = 0
  /\ pi = 0
  /\ lastPage = [t \in Tasks |-> 0]
  /\ pageURLCh = [t \in Tasks |-> NoChan]
  /\ pageRespCh = [t \in Tasks |-> NoChan]
  /\ wgPageScan = [t \in Tasks |-> 0]
  /\ wgScanner = 0
  /\ wgCardSel = 0
  /\ cardSelCh = NoChan
  /\ cardCh = MakeChan(maxScrapeWorker)
  /\ closer = [t \in Tasks |-> "unborn"]
  /\ fw = [t \in Tasks |-> [w \in FetchIds |-> IdleFetch]]
  /\ sw = [t \in Tasks |-> [w \in ScanIds |-> IdleScan]]
  /\ ew = [e \in ExtractIds |-> IdleExtract]
  /\ reducerPc = "range"
  /\ cards = <<>>
  /\ callerPc = "calling"
  /\ pool = [started |-> FALSE, out |-> 0, netreq |-> FALSE]
  /\ faults = 0
  /\ panicked = ""
  /\ hist = HistInit

\* the listings of the site: the number of items on each page
Sites ==
  {[p \in Pages |-> IF p <= MaxItems THEN p ELSE MaxItems],
   [p \in Pages |-> IF p - 1 <= MaxItems THEN p - 1 ELSE MaxItems]}

\* the configurations CardsStream rejects (cards.go:530-532, 558-561)
ConfigFault(c) ==
  \/ c.Language \notin DOMAIN siteConfigs
  \/ c.TitleNumber # 0 /\ ~siteConfigs[c.Language].supportTitleNumber

\* the number of option groups in which a run departs from the default run
Departures(c, cl) ==
    (IF c.TitleNumber # 0 THEN 1 ELSE 0)
  + (IF c.GetRecent THEN 1 ELSE 0)
  + (IF c.GetImages THEN 1 ELSE 0)
  + (IF c.PageStart # 0 \/ c.Reverse THEN 1 ELSE 0)
  + (IF cl # "stream" THEN 1 ELSE 0)

\* the runs explored: every run with a rejected configuration, and the
\* accepted ones that depart from the default in at most one option group
\* (the start page and the reverse flag form one group, taken in full)
Inputs ==
  {i \in [cfg : Configs, caller : Callers, site : Sites] :
     ConfigFault(i.cfg) \/ Departures(i.cfg, i.caller) <= 1}

\* no function of card.go is being applied on its own
NoUnit == [kind |-> "none"]

Init ==
  /\ \E i \in Inputs : InitWith(i.cfg, i.caller, i.site)
  /\ unit = NoUnit

\* variable groups, for UNCHANGED
inputVars == <<cfg, caller, site>>
mainVars == <<pc, ret, ntasks, ti, pi, lastPage>>
taskChans == <<pageURLCh, pageRespCh, wgPageScan>>
workerVars == <<closer, fw, sw, ew>>
sinkVars == <<reducerPc, cards, callerPc>>

(* ------------------------------------------------------------------ *)
(* CardsStream, cards.go:528-661                                       *)
(* ------------------------------------------------------------------ *)
Return(e) == pc' = "returned" /\ ret' = e

\* cards.go:529-535: the language lookup
CS_Language ==
  /\ Running /\ pc = "start"
  /\ IF cfg.Language \notin DOMAIN siteConfigs
       THEN Return("unsupported language")
       ELSE pc' = "cookiejar" /\ ret' = ret
  /\ UNCHANGED <<inputVars, unit, ntasks, ti, pi, lastPage, taskChans, wgScanner,
                 wgCardSel, cardSelCh, cardCh, workerVars, sinkVars, pool,
                 faults, panicked, hist>>

\* cards.go:539-545: prepareBiri, cookiejar.New, biri.ProxyStart
CS_CookieJar ==
  /\ Running /\ pc = "cookiejar"
  /\ \E ok \in BOOLEAN :
       IF ok
         THEN /\ pc' = "urlvalues" /\ ret' = ret
              /\ pool' = [pool EXCEPT !.started = TRUE]
         ELSE /\ Return("failed to get new cookiejar")
              /\ pool' = pool
  /\ UNCHANGED <<inputVars, unit, ntasks, ti, pi, lastPage, taskChans, wgScanner,
                 wgCardSel, cardSelCh, cardCh, workerVars, sinkVars,
                 faults, panicked, hist>>

\* cards.go:547-577: the form values; the title-number check of 558-563
CS_UrlValues ==
  /\ Running /\ pc = "urlvalues"
  /\ IF cfg.TitleNumber # 0 /\ ~siteConfigs[cfg.Language].supportTitleNumber
       THEN Return("can't use title number")
       ELSE pc' = "tasks" /\ ret' = ret
  /\ UNCHANGED <<inputVars, unit, ntasks, ti, pi, lastPage, taskChans, wgScanner,
                 wgCardSel, cardSelCh, cardCh, workerVars, sinkVars, pool,
                 faults, panicked, hist>>

\* cards.go:579-603: one default task, or one task per recent release
\* (getTasksForRecentReleases, cards.go:310-320) after an http.Get
CS_Tasks ==
  /\ Running /\ pc = "tasks"
  /\ IF cfg.GetRecent
       THEN /\ pool' = [pool EXCEPT !.netreq = TRUE]
            /\ \/ Return("error getting recent") /\ UNCHANGED <<ntasks, ti>>
               \/ Return("error parsing recent") /\ UNCHANGED <<ntasks, ti>>
               \/ \E n \in 0..MaxTasks :
                    /\ ntasks' = n
                    /\ ti' = 1
                    /\ pc' = IF n = 0 THEN "spawn_extract" ELSE "probe"
                    /\ ret' = ret
       ELSE /\ ntasks' = 1 /\ ti' = 1 /\ pc' = "probe" /\ ret' = ret
            /\ pool' = pool
  /\ UNCHANGED <<inputVars, unit, pi, lastPage, taskChans, wgScanner, wgCardSel,
                 cardSelCh, cardCh, workerVars, sinkVars, faults, panicked,
                 hist>>

RECURSIVE SumTo(_, _)
SumTo(f, n) == IF n = 0 THEN 0 ELSE f[n] + SumTo(f, n - 1)
PagesSoFar == SumTo(lastPage, MaxTasks)

\* variant: the page-request queue holds one page less than the task has
CS_Probe_OneLess ==
  /\ Running /\ pc = "probe"
  /\ pool' = [pool EXCEPT !.netreq = TRUE]
  /\ \/ /\ Return("error getting last page")
        /\ UNCHANGED <<ti, lastPage, taskChans>>
     \/ \E last \in 1..MaxLastPage :
          /\ PagesSoFar + last + (ntasks - ti) <= MaxTotalPages
          /\ lastPage' = [lastPage EXCEPT ![ti] = last]
          /\ pageURLCh' = [pageURLCh EXCEPT ![ti] = MakeChan(last - 1)]
          /\ pageRespCh' = [pageRespCh EXCEPT ![ti] = MakeChan(maxScrapeWorker)]
          /\ wgPageScan' = [wgPageScan EXCEPT ![ti] = @ + last]
          /\ ti' = IF ti < ntasks THEN ti + 1 ELSE 1
          /\ pc' = IF ti < ntasks THEN "probe" ELSE "spawn_extract"
          /\ ret' = ret
  /\ UNCHANGED <<inputVars, unit, ntasks, pi, wgScanner, wgCardSel, cardSelCh,
                 cardCh, workerVars, sinkVars, faults, panicked, hist>>

\* cards.go:605-616 with getLastPage (cards.go:290-308): one probe request
\* per task, then the task's channels and its page counter
CS_Probe ==
  /\ Running /\ pc = "probe"
  /\ pool' = [pool EXCEPT !.netreq = TRUE]
  /\ \/ /\ Return("error getting last page")
        /\ UNCHANGED <<ti, lastPage, taskChans>>
     \/ \E last \in 1..MaxLastPage :
          /\ PagesSoFar + last + (ntasks - ti) <= MaxTotalPages
          /\ lastPage' = [lastPage EXCEPT ![ti] = last]
          /\ pageURLCh' = [pageURLCh EXCEPT ![ti] = MakeChan(last)]
          /\ pageRespCh' = [pageRespCh EXCEPT ![ti] = MakeChan(maxScrapeWorker)]
          /\ wgPageScan' = [wgPageScan EXCEPT ![ti] = @ + last]
          /\ ti' = IF ti < ntasks THEN ti + 1 ELSE 1
          /\ pc' = IF ti < ntasks THEN "probe" ELSE "spawn_extract"
          /\ ret' = ret
  /\ UNCHANGED <<inputVars, unit, ntasks, pi, wgScanner, wgCardSel, cardSelCh,
                 cardCh, workerVars, sinkVars, faults, panicked, hist>>

\* cards.go:620-624: cardSelCh and the extract workers
CS_SpawnExtract ==
  /\ Running /\ pc = "spawn_extract"
  /\ cardSelCh' = MakeChan(maxLocalWorker)
  /\ ew' = [e \in ExtractIds |-> [IdleExtract EXCEPT !.pc = "range"]]
  /\ pc' = IF ntasks = 0 THEN "wait_scanner" ELSE "spawn_task"
  /\ UNCHANGED <<inputVars, unit, ret, ntasks, ti, pi, lastPage, taskChans,
                 wgScanner, wgCardSel, cardCh, closer, fw, sw, sinkVars,
                 pool, faults, panicked, hist>>

\* cards.go:625-638: the closer goroutine and the workers of task ti
CS_SpawnTask ==
  /\ Running /\ pc = "spawn_task"
  /\ wgScanner' = wgScanner + 1
  /\ closer' = [closer EXCEPT ![ti] = "wait"]
  /\ fw' = [fw EXCEPT ![ti] = [w \in FetchIds |-> [IdleFetch EXCEPT !.pc = "range"]]]
  /\ sw' = [sw EXCEPT ![ti] = [w \in ScanIds |-> [IdleScan EXCEPT !.pc = "range"]]]
  /\ pi' = 1
  /\ pc' = "enqueue"
  /\ UNCHANGED <<inputVars, unit, ret, ntasks, ti, lastPage, taskChans, wgCardSel,
                 cardSelCh, cardCh, ew, sinkVars, pool, faults, panicked,
                 hist>>

\* cards.go:646-650: the page number sent for loop index i
PageId(t, i) == IF cfg.Reverse THEN lastPage[t] - i + 1 ELSE i

\* what follows iteration pi of the loop of cards.go:639
AfterIteration ==
  IF pi < lastPage[ti]
    THEN pi' = pi + 1 /\ UNCHANGED <<pc, ti>>
    ELSE /\ pi' = 0
         /\ IF ti < ntasks
              THEN ti' = ti + 1 /\ pc' = "spawn_task"
              ELSE ti' = ti /\ pc' = "wait_scanner"

\* cards.go:639-651: one iteration: skip (and count as done) or enqueue
CS_Enqueue ==
  /\ Running /\ pc = "enqueue"
  /\ IF pi < cfg.PageStart
       THEN /\ IF wgPageScan[ti] = 0
                 THEN /\ panicked' = "negative WaitGroup counter"
                      /\ UNCHANGED <<pc, ti, pi, wgPageScan, hist>>
                 ELSE /\ wgPageScan' = [wgPageScan EXCEPT ![ti] = @ - 1]
                      /\ hist' = [hist EXCEPT !.skipped[ti] = @ + 1]
                      /\ AfterIteration
                      /\ panicked' = panicked
            /\ UNCHANGED pageURLCh
       ELSE /\ CanSend(pageURLCh[ti])
            /\ IF pageURLCh[ti].closed
                 THEN /\ panicked' = "send on closed channel"
                      /\ UNCHANGED <<pc, ti, pi, pageURLCh, hist>>
                 ELSE /\ pageURLCh' = [pageURLCh EXCEPT
                                         ![ti] = Send(@, PageId(ti, pi))]
                      /\ hist' = [hist EXCEPT
                                    !.enqueued[ti][PageId(ti, pi)] = @ + 1]
                      /\ AfterIteration
                      /\ panicked' = panicked
            /\ UNCHANGED wgPageScan
  /\ UNCHANGED <<inputVars, unit, ret, ntasks, lastPage, pageRespCh, wgScanner,
                 wgCardSel, cardSelCh, cardCh, workerVars, sinkVars, pool,
                 faults>>

\* cards.go:654: wgScanner.Wait()
CS_WaitScanner ==
  /\ Running /\ pc = "wait_scanner"
  /\ wgScanner = 0
  /\ pc' = "wait_cardsel"
  /\ UNCHANGED <<inputVars, unit, ret, ntasks, ti, pi, lastPage, taskChans,
                 wgScanner, wgCardSel, cardSelCh, cardCh, workerVars,
                 sinkVars, pool, faults, panicked, hist>>

\* variant: the main goroutine does not wait for the extract workers
CS_WaitCardSel_NoWait ==
  /\ Running /\ pc = "wait_cardsel"
  /\ pc' = "close_cardsel"
  /\ UNCHANGED <<inputVars, unit, ret, ntasks, ti, pi, lastPage, taskChans,
                 wgScanner, wgCardSel, cardSelCh, cardCh, workerVars,
                 sinkVars, pool, faults, panicked, hist>>

\* cards.go:655: wgCardSel.Wait()
CS_WaitCardSel ==
  /\ Running /\ pc = "wait_cardsel"
  /\ wgCardSel = 0
  /\ pc' = "close_cardsel"
  /\ UNCHANGED <<inputVars, unit, ret, ntasks, ti, pi, lastPage, taskChans,
                 wgScanner, wgCardSel, cardSelCh, cardCh, workerVars,
                 sinkVars, pool, faults, panicked, hist>>

\* cards.go:656: close(cardSelCh)
CS_CloseCardSel ==
  /\ Running /\ pc = "close_cardsel"
  /\ cardSelCh' = Close(cardSelCh)
  /\ pc' = "close_card"
  /\ UNCHANGED <<inputVars, unit, ret, ntasks, ti, pi, lastPage, taskChans,
                 wgScanner, wgCardSel, cardCh, workerVars, sinkVars, pool,
                 faults, panicked, hist>>

\* cards.go:657-660: close(cardCh), biri.Done(), return nil
CS_CloseCard ==
  /\ Running /\ pc = "close_card"
  /\ IF cardCh.closed
       THEN /\ panicked' = "close of closed channel"
            /\ UNCHANGED <<pc, ret, cardCh, hist, pool>>
       ELSE /\ cardCh' = Close(cardCh)
            /\ hist' = hist
            /\ pool' = [pool EXCEPT !.started = FALSE]
            /\ Return("nil")
            /\ panicked' = panicked
  /\ UNCHANGED <<inputVars, unit, ntasks, ti, pi, lastPage, taskChans, wgScanner,
                 wgCardSel, cardSelCh, workerVars, sinkVars, faults>>

CardsStream ==
  \/ CS_Language \/ CS_CookieJar \/ CS_UrlValues \/ CS_Tasks \/ CS_Probe
  \/ CS_SpawnExtract \/ CS_SpawnTask \/ CS_Enqueue \/ CS_WaitScanner
  \/ CS_WaitCardSel \/ CS_CloseCardSel \/ CS_CloseCard

(* ------------------------------------------------------------------ *)
(* The closer goroutine of a task, cards.go:627-634                    *)
(* ------------------------------------------------------------------ *)
\* variant: the closer closes the queues without waiting for the pages
closerRoutine_NoWait(t) ==
  /\ Running /\ closer[t] = "wait"
  /\ pageURLCh' = [pageURLCh EXCEPT ![t] = Close(@)]
  /\ pageRespCh' = [pageRespCh EXCEPT ![t] = Close(@)]
  /\ wgScanner' = wgScanner - 1
  /\ closer' = [closer EXCEPT ![t] = "exit"]
  /\ UNCHANGED <<inputVars, unit, mainVars, wgPageScan, wgCardSel, cardSelCh,
                 cardCh, fw, sw, ew, sinkVars, pool, faults, panicked, hist>>

\* variant: the closer of a task waits for the pages of every task
closerRoutine_AfterAll(t) ==
  /\ Running /\ closer[t] = "wait"
  /\ \A u \in Tasks : wgPageScan[u] = 0
  /\ pageURLCh' = [pageURLCh EXCEPT ![t] = Close(@)]
  /\ pageRespCh' = [pageRespCh EXCEPT ![t] = Close(@)]
  /\ wgScanner' = wgScanner - 1
  /\ closer' = [closer EXCEPT ![t] = "exit"]
  /\ UNCHANGED <<inputVars, unit, mainVars, wgPageScan, wgCardSel, cardSelCh,
                 cardCh, fw, sw, ew, sinkVars, pool, faults, panicked, hist>>

\* s.wgPageScan.Wait(); close(s.pageURLCh); close(s.pageRespCh);
\* wgScanner.Done()
closerRoutine(t) ==
  /\ Running /\ closer[t] = "wait"
  /\ wgPageScan[t] = 0
  /\ pageURLCh' = [pageURLCh EXCEPT ![t] = Close(@)]
  /\ pageRespCh' = [pageRespCh EXCEPT ![t] = Close(@)]
  /\ wgScanner' = wgScanner - 1
  /\ closer' = [closer EXCEPT ![t] = "exit"]
  /\ UNCHANGED <<inputVars, unit, mainVars, wgPageScan, wgCardSel, cardSelCh,
                 cardCh, fw, sw, ew, sinkVars, pool, faults, panicked, hist>>

(* ------------------------------------------------------------------ *)
(* pageFetchWorker, cards.go:334-394                                   *)
(* ------------------------------------------------------------------ *)
\* a request ends with status 200, a transport error or another status
Outcomes == {"ok", "err", "bad"}
\* the environment may make an operation fail when it has failed before
\* (already) or when the budget allows one more failing operation
MayFail(already) == already \/ faults < MaxFaultyOps
Charge(already) == IF already THEN faults ELSE faults + 1

\* variant: the worker does not leave its loop when the queue is closed
FW_Range_NoExit(t, w) ==
  /\ Running /\ fw[t][w].pc = "range"
  /\ CanRecv(pageURLCh[t])
  /\ fw' = [fw EXCEPT ![t][w] = [IdleFetch EXCEPT
               !.pc = "attempt", !.link = Head(pageURLCh[t].buf)]]
  /\ pageURLCh' = [pageURLCh EXCEPT ![t] = Recv(@)]
  /\ UNCHANGED <<inputVars, unit, mainVars, pageRespCh, wgPageScan, wgScanner,
                 wgCardSel, cardSelCh, cardCh, closer, sw, ew, sinkVars,
                 pool, faults, panicked, hist>>

\* cards.go:335: for link := range task.pageURLCh
FW_Range(t, w) ==
  /\ Running /\ fw[t][w].pc = "range"
  /\ \/ /\ CanRecv(pageURLCh[t])
        /\ fw' = [fw EXCEPT ![t][w] = [IdleFetch EXCEPT
                     !.pc = "attempt", !.link = Head(pageURLCh[t].buf)]]
        /\ pageURLCh' = [pageURLCh EXCEPT ![t] = Recv(@)]
     \/ /\ Drained(pageURLCh[t])
        /\ fw' = [fw EXCEPT ![t][w].pc = "exit"]
        /\ pageURLCh' = pageURLCh
  /\ UNCHANGED <<inputVars, unit, mainVars, pageRespCh, wgPageScan, wgScanner,
                 wgCardSel, cardSelCh, cardCh, closer, sw, ew, sinkVars,
                 pool, faults, panicked, hist>>

\* variant: only a transport error bans the client
FetchRelease_ErrOnly(o) == IF o = "err" THEN "banned" ELSE "readded"

\* cards.go:356-377: what happens to the client after the attempt
FetchRelease(o) == IF o = "ok" THEN "readded" ELSE "banned"

\* variant: one attempt more than maxRetries
AfterFailedAttempt_OneMore(attempt) ==
  IF attempt + 1 <= maxRetries THEN "attempt" ELSE "requeue"

\* cards.go:340, 362-373, 385: where the worker goes after a failed attempt
AfterFailedAttempt(attempt) ==
  IF attempt + 1 < maxRetries THEN "attempt" ELSE "requeue"

\* cards.go:340-378: one attempt: backoff, GetClient, PostForm, then Ban
\* and continue, or Readd
FW_Attempt(t, w) ==
  /\ Running /\ fw[t][w].pc = "attempt"
  /\ \E o \in Outcomes :
       /\ o # "ok" => MayFail(fw[t][w].attempt > 0)
       /\ fw' = [fw EXCEPT
                   ![t][w].outcome = o,
                   ![t][w].client = FetchRelease(o),
                   ![t][w].attempt = IF o = "ok" THEN @ ELSE @ + 1,
                   ![t][w].pc = IF o = "ok" THEN "forward"
                                ELSE AfterFailedAttempt(fw[t][w].attempt)]
       /\ faults' = IF o = "ok" THEN faults ELSE Charge(fw[t][w].attempt > 0)
       /\ hist' = IF o = "ok" /\ fw[t][w].attempt > hist.lateOk
                    THEN [hist EXCEPT !.lateOk = fw[t][w].attempt]
                    ELSE hist
       /\ pool' = [pool EXCEPT
                     !.netreq = TRUE,
                     !.out = IF FetchRelease(o) \in {"readded", "banned"}
                               THEN @ ELSE @ + 1]
  /\ UNCHANGED <<inputVars, unit, mainVars, taskChans, wgScanner, wgCardSel,
                 cardSelCh, cardCh, closer, sw, ew, sinkVars, panicked>>

\* variant: success is not recorded when an earlier attempt failed, so
\* that the forwarded page is put back on pageURLCh as well
FW_Forward_AlsoRequeue(t, w) ==
  /\ Running /\ fw[t][w].pc = "forward"
  /\ CanSend(pageRespCh[t])
  /\ IF pageRespCh[t].closed
       THEN /\ panicked' = "send on closed channel"
            /\ UNCHANGED <<fw, pageRespCh, hist>>
       ELSE /\ pageRespCh' = [pageRespCh EXCEPT ![t] = Send(@, fw[t][w].link)]
            /\ hist' = [hist EXCEPT !.forwarded[t][fw[t][w].link] = @ + 1]
            /\ fw' = IF fw[t][w].attempt > 0
                       THEN [fw EXCEPT ![t][w].pc = "requeue"]
                       ELSE [fw EXCEPT ![t][w] = [IdleFetch EXCEPT
                                                    !.pc = "range"]]
            /\ panicked' = panicked
  /\ UNCHANGED <<inputVars, unit, mainVars, pageURLCh, wgPageScan, wgScanner,
                 wgCardSel, cardSelCh, cardCh, closer, sw, ew, sinkVars,
                 pool, faults>>

\* cards.go:379-382: task.pageRespCh <- resp; <-t; break
FW_Forward(t, w) ==
  /\ Running /\ fw[t][w].pc = "forward"
  /\ CanSend(pageRespCh[t])
  /\ IF pageRespCh[t].closed
       THEN /\ panicked' = "send on closed channel"
            /\ UNCHANGED <<fw, pageRespCh, hist>>
       ELSE /\ pageRespCh' = [pageRespCh EXCEPT ![t] = Send(@, fw[t][w].link)]
            /\ hist' = [hist EXCEPT !.forwarded[t][fw[t][w].link] = @ + 1]
            /\ fw' = [fw EXCEPT ![t][w] = [IdleFetch EXCEPT !.pc = "range"]]
            /\ panicked' = panicked
  /\ UNCHANGED <<inputVars, unit, mainVars, pageURLCh, wgPageScan, wgScanner,
                 wgCardSel, cardSelCh, cardCh, closer, sw, ew, sinkVars,
                 pool, faults>>

\* variant: the worker gives the page up after the exhausted round
FW_Requeue_GiveUp(t, w) ==
  /\ Running /\ fw[t][w].pc = "requeue"
  /\ fw' = [fw EXCEPT ![t][w] = [IdleFetch EXCEPT !.pc = "range"]]
  /\ UNCHANGED <<inputVars, unit, mainVars, taskChans, wgScanner,
                 wgCardSel, cardSelCh, cardCh, closer, sw, ew, sinkVars,
                 pool, faults, hist, panicked>>

\* cards.go:385-391: task.pageURLCh <- link
FW_Requeue(t, w) ==
  /\ Running /\ fw[t][w].pc = "requeue"
  /\ CanSend(pageURLCh[t])
  /\ IF pageURLCh[t].closed
       THEN /\ panicked' = "send on closed channel"
            /\ UNCHANGED <<fw, pageURLCh, hist>>
       ELSE /\ pageURLCh' = [pageURLCh EXCEPT ![t] = Send(@, fw[t][w].link)]
            /\ hist' = [hist EXCEPT !.requeued = TRUE]
            /\ fw' = [fw EXCEPT ![t][w] = [IdleFetch EXCEPT !.pc = "range"]]
            /\ panicked' = panicked
  /\ UNCHANGED <<inputVars, unit, mainVars, pageRespCh, wgPageScan, wgScanner,
                 wgCardSel, cardSelCh, cardCh, closer, sw, ew, sinkVars,
                 pool, faults>>

pageFetchWorker(t, w) ==
  \/ FW_Range(t, w) \/ FW_Attempt(t, w) \/ FW_Forward(t, w)
  \/ FW_Requeue(t, w)

(* ------------------------------------------------------------------ *)
(* pageScanWorker, cards.go:396-411, and the two pageScanParseFunc     *)
(* (English cards.go:104-191, Japanese cards.go:229-249)               *)
(* ------------------------------------------------------------------ *)
\* cards.go:402: for resp := range task.pageRespCh
SW_Range(t, w) ==
  /\ Running /\ sw[t][w].pc = "range"
  /\ \/ /\ CanRecv(pageRespCh[t])
        /\ sw' = [sw EXCEPT ![t][w] = [IdleScan EXCEPT
                     !.pc = "parse", !.page = Head(pageRespCh[t].buf)]]
        /\ pageRespCh' = [pageRespCh EXCEPT ![t] = Recv(@)]
     \/ /\ Drained(pageRespCh[t])
        /\ sw' = [sw EXCEPT ![t][w].pc = "exit"]
        /\ pageRespCh' = pageRespCh
  /\ UNCHANGED <<inputVars, unit, mainVars, pageURLCh, wgPageScan, wgScanner,
                 wgCardSel, cardSelCh, cardCh, closer, fw, ew, sinkVars,
                 pool, faults, panicked, hist>>

\* the step that handles one item of the page: a detail fetch on the
\* English site (cards.go:130), wgCardSel.Add on the Japanese (cards.go:243)
ItemStep == IF cfg.Language = English THEN "detail" ELSE "add"

\* cards.go:105-116, 230-241: parse the listing page and select the items
SW_Parse(t, w) ==
  /\ Running /\ sw[t][w].pc = "parse"
  /\ \/ /\ MayFail(FALSE)
        /\ faults' = Charge(FALSE)
        /\ sw' = [sw EXCEPT ![t][w].pc = "putback"]
        /\ hist' = [hist EXCEPT !.otherFault = TRUE]
     \/ /\ faults' = faults
        /\ hist' = [hist EXCEPT !.scanned[t][sw[t][w].page] = @ + 1]
        /\ sw' = [sw EXCEPT
                    ![t][w].pc = IF site[sw[t][w].page] = 0 THEN "done"
                                                           ELSE ItemStep,
                    ![t][w].idx = IF site[sw[t][w].page] = 0 THEN 0 ELSE 1]
  /\ UNCHANGED <<inputVars, unit, mainVars, taskChans, wgScanner, wgCardSel,
                 cardSelCh, cardCh, closer, fw, ew, sinkVars, pool,
                 panicked>>

\* variant: the parse function returns false without putting the page back
SW_PutBack_Drop(t, w) ==
  /\ Running /\ sw[t][w].pc = "putback"
  /\ sw' = [sw EXCEPT ![t][w] = [IdleScan EXCEPT !.pc = "range"]]
  /\ UNCHANGED <<inputVars, unit, mainVars, taskChans, wgScanner,
                 wgCardSel, cardSelCh, cardCh, closer, fw, ew, sinkVars,
                 pool, faults, hist, panicked>>

\* variant: the parse function returns true after putting the page back
SW_PutBack_ReturnsTrue(t, w) ==
  /\ Running /\ sw[t][w].pc = "putback"
  /\ CanSend(pageURLCh[t])
  /\ IF pageURLCh[t].closed
       THEN /\ panicked' = "send on closed channel"
            /\ UNCHANGED <<sw, pageURLCh>>
       ELSE /\ pageURLCh' = [pageURLCh EXCEPT ![t] = Send(@, sw[t][w].page)]
            /\ sw' = [sw EXCEPT ![t][w].pc = "done"]
            /\ panicked' = panicked
  /\ UNCHANGED <<inputVars, unit, mainVars, pageRespCh, wgPageScan, wgScanner,
                 wgCardSel, cardSelCh, cardCh, closer, fw, ew, sinkVars,
                 pool, faults, hist>>

\* cards.go:107-109, 232-234: put the page back and return false
SW_PutBack(t, w) ==
  /\ Running /\ sw[t][w].pc = "putback"
  /\ CanSend(pageURLCh[t])
  /\ IF pageURLCh[t].closed
       THEN /\ panicked' = "send on closed channel"
            /\ UNCHANGED <<sw, pageURLCh>>
       ELSE /\ pageURLCh' = [pageURLCh EXCEPT ![t] = Send(@, sw[t][w].page)]
            /\ sw' = [sw EXCEPT ![t][w] = [IdleScan EXCEPT !.pc = "range"]]
            /\ panicked' = panicked
  /\ UNCHANGED <<inputVars, unit, mainVars, pageRespCh, wgPageScan, wgScanner,
                 wgCardSel, cardSelCh, cardCh, closer, fw, ew, sinkVars,
                 pool, faults, hist>>

\* variant: the parse function returns after the first item of the page
NextItem_FirstOnly(r) ==
  [r EXCEPT !.retries = 0, !.held = FALSE, !.pc = "done"]

\* the scan worker record once item idx has been dealt with: the next
\* item of resultList.Each, or the return true of cards.go:190, 248
NextItem(r) ==
  IF r.idx < site[r.page]
    THEN [r EXCEPT !.idx = @ + 1, !.retries = 0, !.held = FALSE,
                   !.pc = ItemStep]
    ELSE [r EXCEPT !.retries = 0, !.held = FALSE, !.pc = "done"]

\* variant: one detail request more than maxRetries
AfterFailedDetail_OneMore(r) ==
  IF r.retries + 1 <= maxRetries
    THEN [r EXCEPT !.retries = @ + 1, !.held = TRUE]
    ELSE NextItem(r)

\* cards.go:148, 162-170: after a failed detail request
AfterFailedDetail(r) ==
  IF r.retries + 1 < maxRetries
    THEN [r EXCEPT !.retries = @ + 1, !.held = TRUE]
    ELSE NextItem(r)

\* cards.go:130-186: one request of the detail-page loop of the English
\* site. The client is taken once per link (cards.go:130), before the loop.
SW_Detail(t, w) ==
  /\ Running /\ sw[t][w].pc = "detail"
  /\ LET got == IF sw[t][w].held THEN pool.out ELSE pool.out + 1
     IN
     \/ \* the request fails (transport error or bad status); after the
        \* last one the client is neither banned nor readded
        /\ MayFail(sw[t][w].retries > 0)
        /\ faults' = Charge(sw[t][w].retries > 0)
        /\ pool' = [pool EXCEPT !.out = got, !.netreq = TRUE]
        /\ sw' = [sw EXCEPT ![t][w] = AfterFailedDetail(@)]
        /\ hist' = [hist EXCEPT !.otherFault = TRUE]
        /\ UNCHANGED wgCardSel
     \/ \* 200, Readd, but the detail page does not parse: cards.go:173-179
        /\ MayFail(sw[t][w].retries > 0)
        /\ faults' = Charge(sw[t][w].retries > 0)
        /\ pool' = [pool EXCEPT !.out = got - 1, !.netreq = TRUE]
        /\ hist' = [hist EXCEPT !.otherFault = TRUE]
        /\ sw' = [sw EXCEPT ![t][w] = NextItem(@)]
        /\ UNCHANGED wgCardSel
     \/ \* 200, Readd, parsed, wgCardSel.Add(1): cards.go:173-182
        /\ faults' = faults
        /\ pool' = [pool EXCEPT !.out = got - 1, !.netreq = TRUE]
        /\ wgCardSel' = wgCardSel + 1
        /\ sw' = [sw EXCEPT ![t][w].pc = "emit", ![t][w].held = FALSE]
        /\ hist' = hist
  /\ UNCHANGED <<inputVars, unit, mainVars, taskChans, wgScanner, cardSelCh,
                 cardCh, closer, fw, ew, sinkVars, panicked>>

\* variant: the row is queued without being counted
SW_Add_NoCount(t, w) ==
  /\ Running /\ sw[t][w].pc = "add"
  /\ sw' = [sw EXCEPT ![t][w].pc = "emit"]
  /\ UNCHANGED <<inputVars, unit, mainVars, taskChans, wgScanner, wgCardSel,
                 cardSelCh, cardCh, closer, fw, ew, sinkVars, pool, faults,
                 panicked, hist>>

\* cards.go:243: wgCardSel.Add(1) for a row of the Japanese listing
SW_Add(t, w) ==
  /\ Running /\ sw[t][w].pc = "add"
  /\ wgCardSel' = wgCardSel + 1
  /\ sw' = [sw EXCEPT ![t][w].pc = "emit"]
  /\ UNCHANGED <<inputVars, unit, mainVars, taskChans, wgScanner, cardSelCh,
                 cardCh, closer, fw, ew, sinkVars, pool, faults, panicked,
                 hist>>

\* variant: every row of a page yields the handle of its first item
Handle_FirstRow(t, r) == <<t, r.page, 1>>

\* the item handle of item idx of the page the worker scans
Handle(t, r) == <<t, r.page, r.idx>>

\* cards.go:183, 244: cardSelCh <- handle
SW_Emit(t, w) ==
  /\ Running /\ sw[t][w].pc = "emit"
  /\ CanSend(cardSelCh)
  /\ IF cardSelCh.closed
       THEN /\ panicked' = "send on closed channel"
            /\ UNCHANGED <<sw, cardSelCh, hist>>
       ELSE /\ cardSelCh' = Send(cardSelCh, Handle(t, sw[t][w]))
            /\ hist' = [hist EXCEPT !.emitted = @ \cup {Handle(t, sw[t][w])}]
            /\ sw' = [sw EXCEPT ![t][w] = NextItem(@)]
            /\ panicked' = panicked
  /\ UNCHANGED <<inputVars, unit, mainVars, taskChans, wgScanner, wgCardSel,
                 cardCh, closer, fw, ew, sinkVars, pool, faults>>

\* cards.go:404-406: the parse function returned true: wgPageScan.Done()
SW_Done(t, w) ==
  /\ Running /\ sw[t][w].pc = "done"
  /\ IF wgPageScan[t] = 0
       THEN /\ panicked' = "negative WaitGroup counter"
            /\ UNCHANGED <<sw, wgPageScan, hist>>
       ELSE /\ wgPageScan' = [wgPageScan EXCEPT ![t] = @ - 1]
            /\ hist' = [hist EXCEPT !.doneScan[t][sw[t][w].page] = @ + 1]
            /\ sw' = [sw EXCEPT ![t][w] = [IdleScan EXCEPT !.pc = "range"]]
            /\ panicked' = panicked
  /\ UNCHANGED <<inputVars, unit, mainVars, pageURLCh, pageRespCh, wgScanner,
                 wgCardSel, cardSelCh, cardCh, closer, fw, ew, sinkVars,
                 pool, faults>>

pageScanWorker(t, w) ==
  \/ SW_Range(t, w) \/ SW_Parse(t, w) \/ SW_PutBack(t, w)
  \/ SW_Detail(t, w) \/ SW_Add(t, w) \/ SW_Emit(t, w) \/ SW_Done(t, w)

(* ------------------------------------------------------------------ *)
(* extractWorker, cards.go:449-464, with getImage, cards.go:413-447    *)
(* ------------------------------------------------------------------ *)
\* variant: a panic in extractData is not recovered and ends the worker
Extracting_Dies(h, fault) ==
  [pc |-> IF fault THEN "exit" ELSE IF cfg.GetImages THEN "image" ELSE "send",
   item |-> h, attempt |-> 0, faulted |-> fault]

\* cards.go:451-454: the worker once extractData has returned for item h;
\* with images wanted it goes on to getImage
Extracting(h, fault) ==
  [pc |-> IF cfg.GetImages THEN "image" ELSE "send",
   item |-> h, attempt |-> 0, faulted |-> fault]

\* cards.go:450-453: for s := range cardSelChan; c := extractData(...).
\* A panic inside extractDataEn/Jp is recovered there (card.go:162-166,
\* 287-291) and extractData still returns a Card.
EW_Range(e) ==
  /\ Running /\ ew[e].pc = "range"
  /\ \/ /\ CanRecv(cardSelCh)
        /\ cardSelCh' = Recv(cardSelCh)
        /\ \/ /\ MayFail(FALSE)
              /\ faults' = Charge(FALSE)
              /\ hist' = [hist EXCEPT !.otherFault = TRUE, !.faultedBy = e]
              /\ ew' = [ew EXCEPT ![e] = Extracting(Head(cardSelCh.buf), TRUE)]
           \/ /\ UNCHANGED <<faults, hist>>
              /\ ew' = [ew EXCEPT ![e] = Extracting(Head(cardSelCh.buf), FALSE)]
     \/ /\ Drained(cardSelCh)
        /\ ew' = [ew EXCEPT ![e].pc = "exit"]
        /\ UNCHANGED <<cardSelCh, faults, hist>>
  /\ UNCHANGED <<inputVars, unit, mainVars, taskChans, wgScanner, wgCardSel,
                 cardCh, closer, fw, sw, sinkVars, pool, panicked>>

\* variant: when the last image attempt fails the worker drops the item,
\* without sending a Card and without wgCardSel.Done()
EW_Image_Drop(e) ==
  /\ Running /\ ew[e].pc = "image"
  /\ pool' = [pool EXCEPT !.netreq = TRUE]
  /\ \/ /\ MayFail(ew[e].attempt > 0)
        /\ faults' = Charge(ew[e].attempt > 0)
        /\ hist' = [hist EXCEPT !.otherFault = TRUE]
        /\ ew' = IF ew[e].attempt + 1 < maxRetries
                   THEN [ew EXCEPT ![e].attempt = @ + 1]
                   ELSE [ew EXCEPT ![e] = [IdleExtract EXCEPT !.pc = "range"]]
     \/ /\ faults' = faults
        /\ hist' = hist
        /\ ew' = [ew EXCEPT ![e].pc = "send"]
  /\ UNCHANGED <<inputVars, unit, mainVars, taskChans, wgScanner, wgCardSel,
                 cardSelCh, cardCh, closer, fw, sw, sinkVars, panicked>>

\* cards.go:417-446: one attempt of getImage: GetClient, Get, decode,
\* then Readd and return, or Ban and try again
EW_Image(e) ==
  /\ Running /\ ew[e].pc = "image"
  /\ pool' = [pool EXCEPT !.netreq = TRUE]
  /\ \/ /\ MayFail(ew[e].attempt > 0)
        /\ faults' = Charge(ew[e].attempt > 0)
        /\ hist' = [hist EXCEPT !.otherFault = TRUE]
        /\ ew' = [ew EXCEPT
                    ![e].attempt = @ + 1,
                    ![e].pc = IF ew[e].attempt + 1 < maxRetries
                                THEN "image" ELSE "send"]
     \/ /\ faults' = faults
        /\ hist' = hist
        /\ ew' = [ew EXCEPT ![e].pc = "send"]
  /\ UNCHANGED <<inputVars, unit, mainVars, taskChans, wgScanner, wgCardSel,
                 cardSelCh, cardCh, closer, fw, sw, sinkVars, panicked>>

\* card.go:162-166, 287-291: the zero Card that extractDataEn/Jp return
\* after a recovered panic (their result is unnamed, the deferred function
\* cannot set it)
ZeroCard == [number |-> <<>>]
\* the Card extractData returned for the worker's item; number stands for
\* the item's card number
CardOf(r) == IF r.faulted THEN ZeroCard ELSE [number |-> r.item]

\* cards.go:461: cardCh <- c
EW_Send(e) ==
  /\ Running /\ ew[e].pc = "send"
  /\ CanSend(cardCh)
  /\ IF cardCh.closed
       THEN /\ panicked' = "send on closed channel"
            /\ UNCHANGED <<ew, cardCh, hist>>
       ELSE /\ cardCh' = Send(cardCh, CardOf(ew[e]))
            /\ hist' = [hist EXCEPT !.sent = @ \cup
                          {<<ew[e].item, Cardinality({x \in @ : x[1] = ew[e].item}) + 1>>}]
            /\ ew' = [ew EXCEPT ![e].pc = "wgdone"]
            /\ UNCHANGED panicked
  /\ UNCHANGED <<inputVars, unit, mainVars, taskChans, wgScanner, wgCardSel,
                 cardSelCh, closer, fw, sw, sinkVars, pool, faults>>

\* cards.go:462: wgCardSel.Done()
EW_Done(e) ==
  /\ Running /\ ew[e].pc = "wgdone"
  /\ IF wgCardSel = 0
       THEN /\ panicked' = "negative WaitGroup counter"
            /\ UNCHANGED <<ew, wgCardSel>>
       ELSE /\ wgCardSel' = wgCardSel - 1
            /\ ew' = [ew EXCEPT ![e] = [IdleExtract EXCEPT !.pc = "range"]]
            /\ panicked' = panicked
  /\ UNCHANGED <<inputVars, unit, mainVars, taskChans, wgScanner, cardSelCh,
                 cardCh, closer, fw, sw, sinkVars, pool, faults, hist>>

extractWorker(e) == EW_Range(e) \/ EW_Image(e) \/ EW_Send(e) \/ EW_Done(e)

(* ------------------------------------------------------------------ *)
(* The consumer of cardCh and the caller of CardsStream                *)
(* ------------------------------------------------------------------ *)
\* variant: the incoming Card is put in front of clr.cards
reduce_Prepend ==
  /\ Running /\ reducerPc = "range"
  /\ \/ /\ CanRecv(cardCh)
        /\ cards' = IF caller = "Cards" THEN <<Head(cardCh.buf)>> \o cards
                                        ELSE cards
        /\ cardCh' = Recv(cardCh)
        /\ reducerPc' = reducerPc
     \/ /\ Drained(cardCh)
        /\ reducerPc' = "done"
        /\ UNCHANGED <<cards, cardCh>>
  /\ UNCHANGED <<inputVars, unit, mainVars, taskChans, wgScanner, wgCardSel,
                 cardSelCh, workerVars, callerPc, pool, faults, panicked,
                 hist>>

\* cards.go:479-484 (cardListReducer.reduce), cmd/fetch.go:40-41
\* (writeCards): range over cardCh, then wg.Done()
reduce ==
  /\ Running /\ reducerPc = "range"
  /\ \/ /\ CanRecv(cardCh)
        /\ cards' = IF caller = "Cards" THEN Append(cards, Head(cardCh.buf))
                                        ELSE cards
        /\ cardCh' = Recv(cardCh)
        /\ reducerPc' = reducerPc
     \/ /\ Drained(cardCh)
        /\ reducerPc' = "done"
        /\ UNCHANGED <<cards, cardCh>>
  /\ UNCHANGED <<inputVars, unit, mainVars, taskChans, wgScanner, wgCardSel,
                 cardSelCh, workerVars, callerPc, pool, faults, panicked,
                 hist>>

\* cards.go:676-680 (aggregate), cmd/fetch.go:198-202: err := CardsStream;
\* wg.Wait(); return
aggregate ==
  /\ Running
  /\ \/ /\ callerPc = "calling" /\ pc = "returned"
        /\ callerPc' = "waiting"
     \/ /\ callerPc = "waiting" /\ reducerPc = "done"
        /\ callerPc' = "returned"
  /\ UNCHANGED <<inputVars, unit, mainVars, taskChans, wgScanner, wgCardSel,
                 cardSelCh, cardCh, workerVars, reducerPc, cards, pool,
                 faults, panicked, hist>>

(* ------------------------------------------------------------------ *)
(* The system                                                          *)
(* ------------------------------------------------------------------ *)
Next ==
  \/ CardsStream
  \/ \E t \in Tasks : closerRoutine(t)
  \/ \E t \in Tasks : \E w \in FetchIds : pageFetchWorker(t, w)
  \/ \E t \in Tasks : \E w \in ScanIds : pageScanWorker(t, w)
  \/ \E e \in ExtractIds : extractWorker(e)
  \/ reduce
  \/ aggregate

Spec == Init /\ [][Next]_vars

\* a goroutine that can take a step eventually takes one
FairSpec == Spec /\ WF_vars(Next)

TypeOK ==
  /\ faults \in 0..MaxFaultyOps
  /\ wgScanner \in 0..MaxTasks
  /\ wgCardSel \in Nat
  /\ \A t \in Tasks : wgPageScan[t] \in 0..MaxLastPage

(* ================================================================== *)
(* Card numbers, card.go:443-490. A string is a sequence of one-letter  *)
(* strings; the functions of package strings and the two regular       *)
(* expressions are written out below as Go defines them.               *)
(* ================================================================== *)
\* longest raw card number that is enumerated letter by letter
MaxNumberLen == 5
\* longest setID, release and id of the enumerated numbers of the form
\* <setID>/<release>-<id>
MaxSetIDLen == 1
MaxReleaseLen == 3
MaxIDLen == 2

Digits == {"0", "1", "2", "3", "4", "5", "6", "7", "8", "9"}
Digits10 == <<"0", "1", "2", "3", "4", "5", "6", "7", "8", "9">>
Letters ==
  {"A", "B", "C", "D", "E", "F", "G", "H", "I", "J", "K", "L", "M", "N",
   "O", "P", "Q", "R", "S", "T", "U", "V", "W", "X", "Y", "Z", "a", "b"}
\* [a-zA-Z0-9], [a-zA-Z0-9-] and [a-zA-Z-] of card.go:98, 100
AlNum == Letters \cup Digits
AlNumHyphen == AlNum \cup {"-"}
LetterHyphen == Letters \cup {"-"}

Slice(s, a, b) == [i \in 1..(b - a + 1) |-> s[a + i - 1]]
AllIn(s, class) == \A i \in 1..Len(s) : s[i] \in class
\* strings.HasPrefix
HasPrefix(s, pre) ==
  Len(s) >= Len(pre) /\ \A i \in 1..Len(pre) : s[i] = pre[i]

RECURSIVE ReplaceAll(_, _, _)
\* strings.ReplaceAll(s, old, new), old not empty: the occurrences of old
\* are taken from left to right and do not overlap
ReplaceAll(s, old, new) ==
  IF Len(s) < Len(old) THEN s
  ELSE IF HasPrefix(s, old)
    THEN new \o ReplaceAll(Slice(s, Len(old) + 1, Len(s)), old, new)
    ELSE <<s[1]>> \o ReplaceAll(Tail(s), old, new)

\* strings.Count(s, c) for a one-letter c
Count(s, c) == Cardinality({i \in 1..Len(s) : s[i] = c})

\* strings.LastIndex(s, c) for a one-letter c: 0-based, -1 when absent
LastIndex(s, c) ==
  IF Count(s, c) = 0 THEN -1
  ELSE (CHOOSE i \in 1..Len(s) :
          s[i] = c /\ \A j \in (i + 1)..Len(s) : s[j] # c) - 1

RECURSIVE Replace(_, _, _, _)
\* strings.Replace(s, c, new, n) for a one-letter c and n >= 0: the first n
\* occurrences of c become new
Replace(s, c, new, n) ==
  IF n = 0 \/ Len(s) = 0 THEN s
  ELSE IF s[1] = c THEN new \o Replace(Tail(s), c, new, n - 1)
  ELSE <<s[1]>> \o Replace(Tail(s), c, new, n)

\* strings.Contains(s, c) for a one-letter c
Contains(s, c) == Count(s, c) > 0

RECURSIVE Split(_, _)
\* strings.Split(s, c) for a one-letter c: the pieces between the c's
Split(s, c) ==
  IF ~Contains(s, c) THEN <<s>>
  ELSE LET i == CHOOSE k \in 1..Len(s) :
                  s[k] = c /\ \A j \in 1..(k - 1) : s[j] # c
       IN <<Slice(s, 1, i - 1)>> \o Split(Slice(s, i + 1, Len(s)), c)

PercentTwoB == <<"%", "2", "B">>

\* variant: a final "+" is replaced like the others
sanitizeCardNumber_AllPlus(cn) ==
  LET cn1 == ReplaceAll(cn, PercentTwoB, <<"+">>)
      plusCnt == Count(cn1, "+")
  IN IF plusCnt > 0 THEN Replace(cn1, "+", <<" ">>, plusCnt) ELSE cn1

\* card.go:443-457
sanitizeCardNumber(cn) ==
  LET cn1 == ReplaceAll(cn, PercentTwoB, <<"+">>)
      plusCnt == Count(cn1, "+")
      repCnt == IF LastIndex(cn1, "+") = Len(cn1) - 1 THEN plusCnt - 1
                                                      ELSE plusCnt
  IN IF plusCnt > 0 THEN Replace(cn1, "+", <<" ">>, repCnt) ELSE cn1

Positions(s, c) == {i \in 1..Len(s) : s[i] = c}

\* card.go:98: the matches of
\* ([a-zA-Z0-9]+)/([a-zA-Z0-9-]+)-([a-zA-Z0-9]+\+?)$ in cn, each as
\* <<start, position of the "/", position of the last "-" of the match>>
SuffixMatches(cn) ==
  LET n == Len(cn)
      IdOk(k) ==
        LET body == IF cn[n] = "+" THEN Slice(cn, k + 1, n - 1)
                                   ELSE Slice(cn, k + 1, n)
        IN Len(body) > 0 /\ AllIn(body, AlNum)
  IN {m \in (1..n) \X Positions(cn, "/") \X Positions(cn, "-") :
        /\ m[1] < m[2] /\ AllIn(Slice(cn, m[1], m[2] - 1), AlNum)
        /\ m[2] + 1 < m[3]
        /\ AllIn(Slice(cn, m[2] + 1, m[3] - 1), AlNumHyphen)
        /\ m[3] < n /\ IdOk(m[3])}

\* regexp.FindStringSubmatch: the leftmost match, its greedy groups as long
\* as they can be
standardCardSuffixRE(cn) ==
  LET ms == SuffixMatches(cn)
      m == CHOOSE x \in ms :
             \A y \in ms : x[1] < y[1] \/ (x[1] = y[1] /\ x[3] >= y[3])
  IN [setID |-> Slice(cn, m[1], m[2] - 1),
      release |-> Slice(cn, m[2] + 1, m[3] - 1),
      id |-> Slice(cn, m[3] + 1, Len(cn))]

\* card.go:100: the matches of ([a-zA-Z-]+)([0-9]+) in release, each as
\* <<start, first digit, last digit>>
ReleaseMatches(release) ==
  LET n == Len(release)
  IN {m \in (1..n) \X (1..n) \X (1..n) :
        /\ m[1] < m[2] /\ m[2] <= m[3]
        /\ AllIn(Slice(release, m[1], m[2] - 1), LetterHyphen)
        /\ AllIn(Slice(release, m[2], m[3]), Digits)}

\* the packID group of the leftmost, greedy match; "" when there is none
standardReleaseRE(release) ==
  LET ms == ReleaseMatches(release)
      m == CHOOSE x \in ms :
             \A y \in ms :
               \/ x[1] < y[1]
               \/ x[1] = y[1] /\ x[2] > y[2]
               \/ x[1] = y[1] /\ x[2] = y[2] /\ x[3] >= y[3]
  IN IF ms = {} THEN <<>> ELSE Slice(release, m[2], m[3])

NoParts == [setID |-> <<>>, release |-> <<>>, releasePackID |-> <<>>,
            id |-> <<>>]

\* variant: the split on "/" and "-" is tried before the regular expression
parseCardNumber_SplitFirst(cn) ==
  IF Contains(cn, "/")
    THEN LET setInfo == Split(Split(cn, "/")[2], "-")
         IN IF Len(setInfo) > 1
              THEN [setID |-> Split(cn, "/")[1], release |-> setInfo[1],
                    releasePackID |-> standardReleaseRE(setInfo[1]),
                    id |-> setInfo[2]]
              ELSE [NoParts EXCEPT !.setID = Split(cn, "/")[1]]
    ELSE NoParts

\* card.go:459-490
parseCardNumber(cn) ==
  IF SuffixMatches(cn) # {}
    THEN LET m == standardCardSuffixRE(cn)
         IN [setID |-> m.setID, release |-> m.release,
             releasePackID |-> standardReleaseRE(m.release), id |-> m.id]
    ELSE IF Contains(cn, "/")
      THEN LET setInfo == Split(Split(cn, "/")[2], "-")
           IN IF Len(setInfo) > 1
                THEN [setID |-> Split(cn, "/")[1], release |-> setInfo[1],
                      releasePackID |-> standardReleaseRE(setInfo[1]),
                      id |-> setInfo[2]]
                ELSE [NoParts EXCEPT !.setID = Split(cn, "/")[1]]
      ELSE NoParts

\* the letters of the numbers that are enumerated
NumberAlphabet == {"B", "2", "/", "-", "+", "%", " "}
Strings(alphabet, lo, hi) == UNION {[1..k -> alphabet] : k \in lo..hi}

\* numbers quoted in the documentation and the tests of the parser
\* (card.go:48-56, unnamed/part_001:749-1259)
TSK_E070SSP == <<"T", "S", "K", "/", "S", "8", "2", "-", "E", "0", "7", "0",
                 "S", "S", "P", "%", "2", "B">>
RWBY_01PR == <<"R", "W", "B", "Y", "/", "B", "R", "O", "2", "0", "2", "1",
               "-", "0", "1", "+", "P", "R">>
BD_EN_W03 == <<"B", "D", "/", "E", "N", "-", "W", "0", "3", "-", "0", "0",
               "4">>
BD_W63 == <<"B", "D", "/", "W", "6", "3", "-", "0", "3", "6", "S", "P", "M",
            "a">>
BFR_BSL2021 == <<"B", "F", "R", "/", "B", "S", "L", "2", "0", "2", "1", "-",
                 "0", "3", "S">>
WS_TCPR_P01 == <<"W", "S", "/", "T", "C", "P", "R", "-", "P", "0", "1">>
QuotedNumbers ==
  {TSK_E070SSP, RWBY_01PR, BD_EN_W03, BD_W63, BFR_BSL2021, WS_TCPR_P01}

\* numbers of the form <setID>/<release>-<id>, the id with or without a
\* final "+" or "%2B"
FormedNumbers ==
  {x.s \o <<"/">> \o x.r \o <<"-">> \o x.i \o x.t :
     x \in [s : Strings({"B", "2"}, 1, MaxSetIDLen),
            r : Strings({"B", "2", "-"}, 1, MaxReleaseLen),
            i : Strings({"B", "2"}, 1, MaxIDLen),
            t : {<<>>, <<"+">>, PercentTwoB}]}

\* the letter by letter numbers, the formed and the quoted ones, and the
\* quoted ones with something printed before them
RawNumbers ==
  Strings(NumberAlphabet, 0, MaxNumberLen) \cup FormedNumbers
    \cup QuotedNumbers
    \cup {pre \o n : pre \in {<<"-">>, <<" ">>, <<"B", "/">>},
                      n \in QuotedNumbers}

\* the raw number before sanitizeCardNumber has been applied to it
NumberUnit(raw) ==
  [kind |-> "number", pc |-> "raw", raw |-> raw, cn |-> <<>>,
   parts |-> NoParts]

\* the pipeline at rest while a function is applied on its own
Parked ==
  InitWith([Language |-> English, TitleNumber |-> 0, GetRecent |-> FALSE,
            GetImages |-> FALSE, PageStart |-> 0, Reverse |-> FALSE],
           "stream", [p \in Pages |-> 0])
pipelineVars ==
  <<cfg, caller, site, pc, ret, ntasks, ti, pi, lastPage, pageURLCh,
    pageRespCh, wgPageScan, wgScanner, wgCardSel, cardSelCh, cardCh, closer,
    fw, sw, ew, reducerPc, cards, callerPc, pool, faults, panicked, hist>>

NumberInit == Parked /\ \E raw \in RawNumbers : unit = NumberUnit(raw)

\* card.go:168, 293: cardNumber = sanitizeCardNumber(cardNumber)
Sanitize ==
  /\ unit.kind = "number" /\ unit.pc = "raw"
  /\ unit' = [unit EXCEPT !.pc = "sanitized",
                          !.cn = sanitizeCardNumber(unit.raw)]
  /\ UNCHANGED pipelineVars

\* card.go:171, 296: parseCardNumber(cardNumber)
Parse ==
  /\ unit.kind = "number" /\ unit.pc = "sanitized"
  /\ unit' = [unit EXCEPT !.pc = "parsed",
                          !.parts = parseCardNumber(unit.cn)]
  /\ UNCHANGED pipelineVars

NumberNext == Sanitize \/ Parse
NumberSpec == NumberInit /\ [][NumberNext]_vars

(* ================================================================== *)
(* Field extraction, card.go:126-441                                  *)
(* ================================================================== *)
MaxAbilityTokens == 2
MaxRuns == 2
\* the most icons a trigger field holds
MaxTriggers == 2

\* card.go:126-137
triggersMap ==
  [soul |-> "SOUL", salvage |-> "COMEBACK", draw |-> "DRAW",
   stock |-> "POOL", treasure |-> "TREASURE", shot |-> "SHOT",
   bounce |-> "RETURN", gate |-> "GATE", standby |-> "STANDBY",
   choice |-> "CHOICE"]

\* triggersMap[name]: the zero value "" for a key the map does not hold; a
\* read adds no key
Lookup(icons, name) == IF name \in DOMAIN icons THEN icons[name] ELSE ""

\* the letters of the names of triggersMap, and of its zero value
Spell ==
  [SOUL |-> <<"S", "O", "U", "L">>,
   COMEBACK |-> <<"C", "O", "M", "E", "B", "A", "C", "K">>,
   DRAW |-> <<"D", "R", "A", "W">>, POOL |-> <<"P", "O", "O", "L">>,
   TREASURE |-> <<"T", "R", "E", "A", "S", "U", "R", "E">>,
   SHOT |-> <<"S", "H", "O", "T">>,
   RETURN |-> <<"R", "E", "T", "U", "R", "N">>,
   GATE |-> <<"G", "A", "T", "E">>,
   STANDBY |-> <<"S", "T", "A", "N", "D", "B", "Y">>,
   CHOICE |-> <<"C", "H", "O", "I", "C", "E">>]
NameLetters(name) == IF name = "" THEN <<>> ELSE Spell[name]

\* strings.ToUpper
ToUpper(s) ==
  LET LowerCase ==
        <<"a", "b", "c", "d", "e", "f", "g", "h", "i", "j", "k", "l", "m",
          "n", "o", "p", "q", "r", "s", "t", "u", "v", "w", "x", "y", "z">>
      UpperCase ==
        <<"A", "B", "C", "D", "E", "F", "G", "H", "I", "J", "K", "L", "M",
          "N", "O", "P", "Q", "R", "S", "T", "U", "V", "W", "X", "Y", "Z">>
  IN [i \in 1..Len(s) |->
        IF \E k \in 1..Len(LowerCase) : LowerCase[k] = s[i]
          THEN UpperCase[CHOOSE k \in 1..Len(LowerCase) : LowerCase[k] = s[i]]
          ELSE s[i]]

\* strings.TrimSpace, for texts whose only white space is " "
TrimSpace(s) ==
  IF \A i \in 1..Len(s) : s[i] = " " THEN <<>>
  ELSE LET a == CHOOSE i \in 1..Len(s) :
                  s[i] # " " /\ \A j \in 1..(i - 1) : s[j] = " "
           b == CHOOSE i \in 1..Len(s) :
                  s[i] # " " /\ \A j \in (i + 1)..Len(s) : s[j] = " "
       IN Slice(s, a, b)

RECURSIVE WriteTriggers(_, _, _)
\* card.go:221-227, 356-362: the buffer after the children from the i-th
\* on; stems: for each child the file name of its src up to the first ".",
\* "yay" for a child without src
WriteTriggers(icons, stems, i) ==
  IF i > Len(stems) THEN <<>>
  ELSE (IF i # 1 THEN <<" ">> ELSE <<>>)
       \o NameLetters(Lookup(icons, stems[i]))
       \o WriteTriggers(icons, stems, i + 1)

\* card.go:228, 363: info["trigger"]
InfoTrigger(icons, stems) ==
  ToUpper(TrimSpace(WriteTriggers(icons, stems, 1)))

\* card.go:276-278, 409-411: card.Triggers, nil when info["trigger"] is ""
TriggersOf(info) == IF info = <<>> THEN <<>> ELSE Split(info, " ")

\* card.go:139-144
filterDash(st) == IF Contains(st, "-") THEN <<>> ELSE st

\* strconv.Itoa for the numbers of children that occur
Itoa(n) == IF n < 10 THEN <<Digits10[n + 1]>>
                     ELSE <<Digits10[(n \div 10) + 1], Digits10[(n % 10) + 1]>>

\* the nodes of an ability paragraph: a text, a <br/>, an <img> with or
\* without a src attribute (v is the stem of the file name of src)
TextNode(v) == [kind |-> "text", has |-> FALSE, v |-> v]
BrNode == [kind |-> "br", has |-> FALSE, v |-> <<>>]
ImgNode(has, v) == [kind |-> "img", has |-> has, v |-> v]
AbilityNodes ==
  {TextNode(<<"T">>), BrNode, ImgNode(TRUE, <<"soul">>),
   ImgNode(TRUE, <<"zzz">>), ImgNode(FALSE, <<>>)}

\* card.go:425: fmt.Sprintf("[%v]", triggersMap[_imgPlaceHolder])
Bracket(name) == <<"[">> \o (IF name = "" THEN <<>> ELSE <<name>>) \o <<"]">>

\* card.go:420-428 with only the first <img> visited
ReplaceImgs_FirstOnly(icons, nodes) ==
  LET imgs == {i \in 1..Len(nodes) : nodes[i].kind = "img"}
  IN [i \in 1..Len(nodes) |->
        IF i \in imgs /\ nodes[i].has /\ \A j \in imgs : i <= j
          THEN TextNode(Bracket(Lookup(icons, nodes[i].v[1])))
          ELSE nodes[i]]

\* card.go:420-428: every <img> that has a src is replaced, in the fragment,
\* by the text "[<name>]"
ReplaceImgs(icons, nodes) ==
  [i \in 1..Len(nodes) |->
     IF nodes[i].kind = "img" /\ nodes[i].has
       THEN TextNode(Bracket(Lookup(icons, nodes[i].v[1])))
       ELSE nodes[i]]

\* card.go:429: abilityNode.Html(), the "<br/>" kept as a node
Html(node) == IF node.kind = "img" THEN <<"<img/>">> ELSE node.v

\* card.go:433-439: the lines between the "<br/>", the empty ones left out
RECURSIVE Lines(_, _)
Lines(nodes, cur) ==
  IF nodes = <<>>
    THEN IF cur = <<>> THEN <<>> ELSE <<cur>>
    ELSE IF Head(nodes).kind = "br"
      THEN (IF cur = <<>> THEN <<>> ELSE <<cur>>) \o Lines(Tail(nodes), <<>>)
      ELSE Lines(Tail(nodes), cur \o Html(Head(nodes)))

\* card.go:418-441: the ability lines, the paragraph as it is left and
\* triggersMap as the reads leave it
extractAbilities(icons, nodes) ==
  LET left == ReplaceImgs(icons, nodes)
  IN [ability |-> Lines(left, <<>>), nodes |-> left, icons |-> icons]

\* Card{}: every field at its zero value
EmptyCard ==
  [CardNumber |-> <<>>, SetID |-> <<>>, SetName |-> "", Release |-> <<>>,
   ReleasePackID |-> <<>>, ID |-> <<>>, Language |-> "", Type |-> "",
   Level |-> <<>>, Cost |-> <<>>, Power |-> <<>>, Soul |-> <<>>,
   Triggers |-> <<>>, Text |-> <<>>]

\* card.go:183-190, 318-325: info["type"]
TypeOf(typ) ==
  CASE typ = "Character" -> "CH"
    [] typ = "Event" -> "EV"
    [] typ = "Climax" -> "CX"
    [] OTHER -> ""

\* card.go:279-281 with the condition left out
SoulOf_Always(type, soul) == soul

\* card.go:279-281, 412-414: if card.Type == "CH" { card.Soul = info["soul"] }
SoulOf(type, soul) == IF type = "CH" THEN soul ELSE <<>>

\* card.go:216, 352: info["soul"], set when the fragment has a soul field
InfoSoul(frag) ==
  IF frag.soul.present THEN Itoa(frag.soul.icons) ELSE <<>>

\* card.go:159-283; no step of it panics on a fragment of this shape
extractDataEn(icons, frag) ==
  LET cardNumber == sanitizeCardNumber(frag.number)
      parts == parseCardNumber(cardNumber)
      type == TypeOf(frag.typ)
      ab == extractAbilities(icons, frag.ability)
  IN [card |-> [CardNumber |-> cardNumber, SetID |-> parts.setID,
                SetName |-> "", Release |-> parts.release,
                ReleasePackID |-> parts.releasePackID, ID |-> parts.id,
                Language |-> "EN", Type |-> type,
                Level |-> filterDash(frag.level),
                Cost |-> filterDash(frag.cost),
                Power |-> filterDash(frag.power),
                Soul |-> SoulOf(type, InfoSoul(frag)),
                Triggers |-> TriggersOf(InfoTrigger(icons, frag.triggers)),
                Text |-> ab.ability],
      frag |-> [frag EXCEPT !.ability = ab.nodes],
      icons |-> ab.icons, panicked |-> FALSE]

\* card.go:285-416; strings.Split(h4, ") -")[1] panics (line 298) when the
\* h4 text has no ") -", and the deferred recover() (lines 287-291) lets the
\* function return the zero value of its unnamed result
extractDataJp(icons, frag) ==
  LET titleSpan == frag.number
      cardNumber == sanitizeCardNumber(titleSpan)
      parts == parseCardNumber(cardNumber)
      type == TypeOf(frag.typ)
      ab == extractAbilities(icons, frag.ability)
  IN IF ~frag.sep
       THEN [card |-> EmptyCard, frag |-> frag, icons |-> icons,
             panicked |-> TRUE]
       ELSE [card |-> [CardNumber |-> titleSpan, SetID |-> parts.setID,
                       SetName |-> "set", Release |-> parts.release,
                       ReleasePackID |-> parts.releasePackID,
                       ID |-> parts.id, Language |-> "JP", Type |-> type,
                       Level |-> filterDash(frag.level),
                       Cost |-> filterDash(frag.cost),
                       Power |-> filterDash(frag.power),
                       Soul |-> SoulOf(type, InfoSoul(frag)),
                       Triggers |->
                         TriggersOf(InfoTrigger(icons, frag.triggers)),
                       Text |-> ab.ability],
             frag |-> [frag EXCEPT !.ability = ab.nodes],
             icons |-> ab.icons, panicked |-> FALSE]

\* card.go:147-157
extractData(icons, frag) ==
  CASE frag.lang = "EN" -> extractDataEn(icons, frag)
    [] frag.lang = "JP" -> extractDataJp(icons, frag)
    [] OTHER -> [card |-> EmptyCard, frag |-> frag, icons |-> icons,
                 panicked |-> FALSE]

\* the texts of a level, cost or power field: the dash or a number
FieldTexts == {<<"-">>, <<"2">>}
\* texts that hold a dash and are not the dash
DashedTexts == {<<"-", "2">>, <<"1", "-", "2">>}
\* the soul field: absent, or the dash (no icon), or one or two icons
SoulFields ==
  {[present |-> FALSE, text |-> <<>>, icons |-> 0],
   [present |-> TRUE, text |-> <<"-">>, icons |-> 0],
   [present |-> TRUE, text |-> <<>>, icons |-> 1],
   [present |-> TRUE, text |-> <<>>, icons |-> 2]}
\* the numbers a fragment prints: plain, with "%2B", with an inner "+",
\* without "/"
FragmentNumbers == {BD_W63, TSK_E070SSP, RWBY_01PR, <<"B", "2">>}
CardTypes == {"Character", "Event", "Climax", "Other"}
\* the stems of the icons of a trigger field: two of the table, and the
\* "yay" of card.go:225, 360, which the table does not hold
TriggerStems == {"soul", "bounce", "yay"}
TriggerFields == UNION {[1..k -> TriggerStems] : k \in 0..MaxTriggers}

\* the item fragments: sep tells whether the h4 text of a Japanese item
\* holds ") -"; the ability paragraph is apart from the fields, as on the
\* pages of both sites. Plain: the fragments without trigger icons. Special:
\* on an item whose number and ability are fixed, the level, cost and power
\* texts with a dash among other letters, and the trigger fields
Fragments ==
  LET Shape(f) == f.lang = "EN" => f.sep
      Abilities == UNION {[1..k -> AbilityNodes] : k \in 0..MaxAbilityTokens}
      Plain ==
        {f \in [lang : {"EN", "JP"}, number : FragmentNumbers, sep : BOOLEAN,
                typ : CardTypes, level : FieldTexts, cost : FieldTexts,
                power : FieldTexts, soul : SoulFields, triggers : {<<>>},
                ability : Abilities] : Shape(f)}
      Fields == FieldTexts \cup DashedTexts
      Special ==
        {f \in [lang : {"EN", "JP"}, number : {BD_W63}, sep : BOOLEAN,
                typ : CardTypes, level : Fields, cost : Fields,
                power : Fields, soul : SoulFields, triggers : TriggerFields,
                ability : {<<>>}] :
           /\ Shape(f)
           /\ f.triggers # <<>> =>
                f.level = <<"2">> /\ f.cost = <<"2">> /\ f.power = <<"2">>}
  IN Plain \cup Special

FragmentUnit(f) ==
  [kind |-> "fragment", orig |-> f, frag |-> f, icons |-> triggersMap,
   cards |-> <<>>, panics |-> <<>>]

ExtractInit == Parked /\ \E f \in Fragments : unit = FragmentUnit(f)

\* cards.go:451: c := extractData(siteCfg, s), on the fragment as the
\* run before left it
Extract ==
  /\ unit.kind = "fragment" /\ Len(unit.cards) < MaxRuns
  /\ LET r == extractData(unit.icons, unit.frag)
     IN unit' = [unit EXCEPT !.frag = r.frag, !.icons = r.icons,
                             !.cards = Append(@, r.card),
                             !.panics = Append(@, r.panicked)]
  /\ UNCHANGED pipelineVars

ExtractNext == Extract
ExtractSpec == ExtractInit /\ [][ExtractNext]_vars

(* ================================================================== *)
(* Boosters, cards.go:486-500, 663-681, 690-695                       *)
(* ================================================================== *)
MaxArrivals == 3

\* the Cards of a run, by the two fields the reducer and the reader of its
\* result tell them apart by
BoosterCards == [Release : {"W63", "S82"}, ID : 1..2]
CardRuns == UNION {[1..k -> BoosterCards] : k \in 0..MaxArrivals}

\* cards.go:691: var reducer boosterReducer; the zero value of boosterMap is
\* the nil map
NilMap == [isNil |-> TRUE, entries |-> <<>>]
\* the zero value of Booster
ZeroBooster == [ReleaseCode |-> "", Cards |-> <<>>]
\* cards.go:493: br.boosterMap[boosterCode]; reading a nil map or a missing
\* key gives the zero value
MapGet(bm, k) ==
  IF k \in DOMAIN bm.entries THEN bm.entries[k] ELSE ZeroBooster
\* cards.go:497: br.boosterMap[boosterCode] = boosterObj on a map that is not
\* nil
MapPut(bm, k, v) ==
  [bm EXCEPT !.entries =
     [x \in DOMAIN bm.entries \cup {k} |-> IF x = k THEN v ELSE bm.entries[x]]]

\* aggregate has made cardCh and started reduce, and calls CardsStream,
\* which is to send the Cards of run (cards.go:664-674)
BoosterUnit(run) ==
  [kind |-> "boosters", run |-> run, sent |-> 0, ch |-> MakeChan(maxScrapeWorker),
   boosterMap |-> NilMap, reducerPc |-> "range", streamPc |-> "running",
   callerPc |-> "calling", panicked |-> ""]

BoosterInit == Parked /\ \E run \in CardRuns : unit = BoosterUnit(run)

\* cards.go:461: cardCh <- c, for the next Card of the run
BS_Send ==
  /\ unit.kind = "boosters" /\ unit.panicked = ""
  /\ unit.streamPc = "running" /\ unit.sent < Len(unit.run)
  /\ Len(unit.ch.buf) < unit.ch.cap
  /\ unit' = [unit EXCEPT !.sent = @ + 1,
                          !.ch = Send(@, unit.run[unit.sent + 1])]
  /\ UNCHANGED pipelineVars

\* cards.go:657-660: close(cardCh); return nil, once every Card was sent
BS_Close ==
  /\ unit.kind = "boosters" /\ unit.panicked = ""
  /\ unit.streamPc = "running" /\ unit.sent = Len(unit.run)
  /\ unit' = [unit EXCEPT !.ch = Close(@), !.streamPc = "returned"]
  /\ UNCHANGED pipelineVars

\* cards.go:490-500 (boosterReducer.reduce): the assignment to an entry of
\* a nil map is a runtime panic, which ends the process
boosterReduce ==
  /\ unit.kind = "boosters" /\ unit.panicked = ""
  /\ unit.reducerPc = "range"
  /\ \/ /\ CanRecv(unit.ch)
        /\ LET c == Head(unit.ch.buf)
               boosterCode == c.Release
               boosterObj == [MapGet(unit.boosterMap, boosterCode) EXCEPT
                                !.ReleaseCode = boosterCode,
                                !.Cards = Append(@, c)]
           IN IF unit.boosterMap.isNil
                THEN unit' = [unit EXCEPT
                                !.ch = Recv(@),
                                !.panicked = "assignment to entry in nil map"]
                ELSE unit' = [unit EXCEPT
                                !.ch = Recv(@),
                                !.boosterMap =
                                   MapPut(@, boosterCode, boosterObj)]
     \/ /\ Drained(unit.ch)
        /\ unit' = [unit EXCEPT !.reducerPc = "done"]
  /\ UNCHANGED pipelineVars

\* cards.go:676-680, 692-694: err := CardsStream(cfg, cardCh); wg.Wait();
\* return reducer.boosterMap, err
Boosters ==
  /\ unit.kind = "boosters" /\ unit.panicked = ""
  /\ \/ /\ unit.callerPc = "calling" /\ unit.streamPc = "returned"
        /\ unit' = [unit EXCEPT !.callerPc = "waiting"]
     \/ /\ unit.callerPc = "waiting" /\ unit.reducerPc = "done"
        /\ unit' = [unit EXCEPT !.callerPc = "returned"]
  /\ UNCHANGED pipelineVars

BoosterNext == BS_Send \/ BS_Close \/ boosterReduce \/ Boosters
BoosterSpec == BoosterInit /\ [][BoosterNext]_vars

(* ================================================================== *)
(* Recent releases, cards.go:192-204, 237-255, 310-320, 595-600        *)
(* ================================================================== *)
\* the most links the release list holds
MaxLinks == 2

\* strings.Index(s, sub): 1-based, 0 when s does not hold sub
Index(s, sub) ==
  LET at == {i \in 1..(Len(s) - Len(sub) + 1) :
               Slice(s, i, i + Len(sub) - 1) = sub}
  IN IF at = {} THEN 0 ELSE CHOOSE i \in at : \A j \in at : i <= j

\* the literal of the regular expression of cards.go:195
ExpansionKey == <<"e", "x", "p", "a", "n", "s", "i", "o", "n", "=">>

NoValues == [ok |-> FALSE, expansion |-> <<>>]

\* variant: the expression is expansion=(\d*)
ExpansionEn_NoDigit(link) ==
  LET i == Index(link.text, ExpansionKey)
      from == i + Len(ExpansionKey)
      run == {j \in (from - 1)..Len(link.text) :
                \A k \in from..j : link.text[k] \in Digits}
  IN IF ~link.has \/ i = 0 THEN NoValues
     ELSE [ok |-> TRUE,
           expansion |-> Slice(link.text, from,
                               CHOOSE j \in run : \A k \in run : k <= j)]

\* cards.go:193-204: the leftmost match of expansion=(\d+) in the href, the
\* digits taken as far as they go
ExpansionEn(link) ==
  LET starts == {i \in 1..(Len(link.text) - Len(ExpansionKey)) :
                   /\ Slice(link.text, i, i + Len(ExpansionKey) - 1)
                        = ExpansionKey
                   /\ link.text[i + Len(ExpansionKey)] \in Digits}
  IN IF ~link.has \/ starts = {} THEN NoValues
     ELSE LET i == CHOOSE a \in starts : \A b \in starts : a <= b
              from == i + Len(ExpansionKey)
              run == {j \in from..Len(link.text) :
                        \A k \in from..j : link.text[k] \in Digits}
          IN [ok |-> TRUE,
              expansion |-> Slice(link.text, from,
                                  CHOOSE j \in run : \A k \in run : k <= j)]

\* strings.TrimSuffix
TrimSuffix(s, suffix) ==
  IF Len(s) >= Len(suffix)
     /\ Slice(s, Len(s) - Len(suffix) + 1, Len(s)) = suffix
    THEN Slice(s, 1, Len(s) - Len(suffix))
    ELSE s

\* cards.go:238-254: parts := strings.Split(onclick, "('"); parts[1] without
\* a "')" at its end
ExpansionJp(link) ==
  LET sep == <<"(", "'">>
      i == Index(link.text, sep)
      rest == Slice(link.text, i + 2, Len(link.text))
      j == Index(rest, sep)
      part == IF j = 0 THEN rest ELSE Slice(rest, 1, j - 1)
  IN IF ~link.has \/ i = 0 THEN NoValues
     ELSE [ok |-> TRUE, expansion |-> TrimSuffix(part, <<"'", ")">>)]

\* siteCfg.recentRelaseExpansionFunc
recentRelaseExpansionFunc(lang, link) ==
  IF lang = English THEN ExpansionEn(link) ELSE ExpansionJp(link)

\* the links the selector of the site matches (cards.go:192, 237): has tells
\* whether the link has the attribute the site reads (href, onclick), text
\* is the attribute
RecentLinks(lang) ==
  LET Attr(t) == [has |-> TRUE, text |-> t]
  IN IF lang = English
       THEN {[has |-> FALSE, text |-> <<>>],
             Attr(<<"?">> \o ExpansionKey \o <<"2", "2", "8">>),
             Attr(<<"?">> \o ExpansionKey \o <<"2", "2", "7">>
                  \o <<"&">> \o ExpansionKey \o <<"9">>),
             Attr(ExpansionKey \o ExpansionKey \o <<"5", "x">>),
             Attr(<<"?">> \o ExpansionKey),
             Attr(ExpansionKey \o <<"x", "1">>),
             Attr(<<"/", "c", "a", "r", "d">>)}
       ELSE {Attr(<<"f", "(", "'", "4", "4", "4", "'", ")">>),
             Attr(<<"f", "(", "'", "4", "3", "9", "'", ")", ";">>),
             Attr(<<"f", "(", "'", "1", "'", ")", "(", "'", "2", "'", ")">>),
             Attr(<<"f", "(", "'", "'", ")">>),
             Attr(<<"f", "(", ")">>),
             Attr(<<"f", "(", "4", "4", "4", ")">>),
             Attr(<<>>)}

RecentUnit(lang, links) ==
  [kind |-> "recent", lang |-> lang, links |-> links, i |-> 0,
   tasks |-> <<>>, scrapeTasks |-> <<>>, copied |-> 0]

RecentInit ==
  /\ Parked
  /\ \E lang \in {English, Japanese} : \E k \in 0..MaxLinks :
       \E links \in [1..k -> RecentLinks(lang)] :
         unit = RecentUnit(lang, links)

\* cards.go:313-318: the callback of Each for the next matched link
getTasksForRecentReleases ==
  /\ unit.kind = "recent" /\ unit.i < Len(unit.links)
  /\ LET v == recentRelaseExpansionFunc(unit.lang, unit.links[unit.i + 1])
     IN unit' = [unit EXCEPT
                   !.i = @ + 1,
                   !.tasks = IF v.ok THEN Append(@, [urlValues |-> v.expansion])
                                     ELSE @]
  /\ UNCHANGED pipelineVars

\* cards.go:595-600: a copy of the default task for the next recent task
CS_Recent ==
  /\ unit.kind = "recent" /\ unit.i = Len(unit.links)
  /\ unit.copied < Len(unit.tasks)
  /\ unit' = [unit EXCEPT
                !.copied = @ + 1,
                !.scrapeTasks =
                   Append(@, [cookieJar |-> "jar",
                              urlValues |-> unit.tasks[unit.copied + 1].urlValues])]
  /\ UNCHANGED pipelineVars

RecentNext == getTasksForRecentReleases \/ CS_Recent
RecentSpec == RecentInit /\ [][RecentNext]_vars

(* ================================================================== *)
(* The clock of one fetch worker, cards.go:334-394                     *)
(* ================================================================== *)
\* durations in milliseconds
Millisecond == 1
Second == 1000 * Millisecond
\* cards.go:51
minTimeBetweenRequests == 500 * Millisecond
\* cards.go:55
baseBackoffDelay == 1 * Second
\* the longest a request, or a blocked send, is taken to last, in halves of
\* minTimeBetweenRequests
MaxLatency == 2
Latencies == {k * (minTimeBetweenRequests \div 2) : k \in 0..MaxLatency}
\* the most links the worker takes from pageURLCh
MaxDequeues == 2

\* rand.Int63n(n): a number of [0, n), of which the ends and the middle are
\* taken
Int63n_Inclusive(n) == {0, n \div 2, n}
Int63n(n) == {0, n \div 2, n - 1}
Max(a, b) == IF a >= b THEN a ELSE b

\* the worker at its range loop, queued links in task.pageURLCh; elapsed is
\* the time since the worker issued its latest request (-1: it has issued
\* none), which is what the timer t of that request has counted; gap, prev
\* and waits are ghosts: how long after the request before it the latest
\* request was issued (-1: it was the first), how the request before it
\* ended, and the sleeps before the attempts of the current round
WorkerUnit(queued) ==
  [kind |-> "worker", pc |-> "range", elapsed |-> -1, queued |-> queued,
   dequeues |-> 0, attempt |-> 0, outcome |-> "none", gap |-> -1,
   prev |-> "none", waits |-> <<>>]

ClockInit ==
  Parked /\ \E queued \in 1..MaxLastPage : unit = WorkerUnit(queued)

\* cards.go:335: for link := range task.pageURLCh
FT_Range ==
  /\ unit.kind = "worker" /\ unit.pc = "range"
  /\ unit.queued > 0 /\ unit.dequeues < MaxDequeues
  /\ unit' = [unit EXCEPT !.pc = "backoff", !.queued = @ - 1,
                          !.dequeues = @ + 1, !.attempt = 0,
                          !.waits = <<>>]
  /\ UNCHANGED pipelineVars

\* cards.go:341-348: no sleep before attempt 0; before attempt i > 0 a
\* sleep of i * baseBackoffDelay plus a jitter below half of that
FT_Backoff ==
  /\ unit.kind = "worker" /\ unit.pc = "backoff"
  /\ IF unit.attempt > 0
       THEN LET backoffDelay == unit.attempt * baseBackoffDelay
            IN \E jitter \in Int63n(backoffDelay \div 2) :
                 LET waitTime == backoffDelay + jitter
                 IN unit' = [unit EXCEPT !.pc = "request",
                                         !.elapsed = @ + waitTime,
                                         !.waits = Append(@, waitTime)]
       ELSE unit' = [unit EXCEPT !.pc = "request", !.waits = Append(@, 0)]
  /\ UNCHANGED pipelineVars

\* cards.go:351-376: t := time.After(minTimeBetweenRequests), the request
\* and its outcome; a failed attempt goes on to the next one or, after
\* maxRetries, to the requeue
FT_Request ==
  /\ unit.kind = "worker" /\ unit.pc = "request"
  /\ \E latency \in Latencies : \E o \in {"ok", "err", "bad"} :
       unit' = [unit EXCEPT
         !.gap = unit.elapsed,
         !.prev = unit.outcome,
         !.outcome = o,
         !.elapsed = latency,
         !.attempt = IF o = "ok" THEN @ ELSE @ + 1,
         !.pc = IF o = "ok" THEN "forward"
                ELSE IF unit.attempt + 1 < maxRetries THEN "backoff"
                ELSE "requeue"]
  /\ UNCHANGED pipelineVars

\* cards.go:379-383: task.pageRespCh <- resp, which may block, then <-t
FT_Forward ==
  /\ unit.kind = "worker" /\ unit.pc = "forward"
  /\ \E blocked \in Latencies :
       unit' = [unit EXCEPT
         !.pc = "range",
         !.elapsed = Max(@ + blocked, minTimeBetweenRequests)]
  /\ UNCHANGED pipelineVars

\* cards.go:385-391: task.pageURLCh <- link
FT_Requeue ==
  /\ unit.kind = "worker" /\ unit.pc = "requeue"
  /\ unit' = [unit EXCEPT !.pc = "range", !.queued = @ + 1]
  /\ UNCHANGED pipelineVars

ClockNext == FT_Range \/ FT_Backoff \/ FT_Request \/ FT_Forward \/ FT_Requeue
ClockSpec == ClockInit /\ [][ClockNext]_vars

(* ================================================================== *)
(* Properties                                                          *)
(* ================================================================== *)
\* the handles of the items listing page p of task t lists
PageItems(t, p) == {<<t, p, i>> : i \in 1..site[p]}
\* the pages of task t that the configuration has CardsStream request
RequestedPages(t) ==
  {PageId(t, i) : i \in {j \in 1..lastPage[t] : j >= cfg.PageStart}}
ListedOn(t) == UNION {PageItems(t, p) : p \in RequestedPages(t)}
\* the number of Cards sent on cardCh for handle h
SentCount(h) == Cardinality({x \in hist.sent : x[1] = h})
\* the handles that are counted in wgCardSel and not yet done
InFlight ==
    Cardinality({x \in Tasks \X ScanIds : sw[x[1]][x[2]].pc = "emit"})
  + Len(cardSelCh.buf)
  + Cardinality({e \in ExtractIds : ew[e].pc \in {"image", "send", "wgdone"}})
LiveTasks == 1..ntasks

\* C1 (End-to-end): for a single task whose requested listing pages list K
\* items, when no request, parse or extraction fails, CardsStream returns
\* nil having sent exactly K Cards, with the task's wgPageScan at zero, in
\* every fair interleaving of the workers.
SingleClean == ~cfg.GetRecent /\ faults = 0 /\ ret \in {"none", "nil"}
C1_EndToEnd ==
  /\ []((SingleClean /\ ret = "nil") =>
          /\ Cardinality(hist.sent) = Cardinality(ListedOn(1))
          /\ \A h \in ListedOn(1) : SentCount(h) = 1
          /\ wgPageScan[1] = 0)
  /\ <>(~SingleClean \/ ret = "nil")
C1_Witness ==
  /\ SingleClean /\ ret = "nil"
  /\ Cardinality(ListedOn(1)) = 3
  /\ Cardinality(hist.sent) = 3

\* C2: the output channel is closed only by the nil return, once, after the
\* page counter of every task is zero and one Card has been sent for every
\* emitted handle; when it is closed no extract worker holds an item and no
\* handle is queued, so that no Card is sent after the close.
C2_ClosedOnce ==
  /\ panicked \notin {"close of closed channel", "send on closed channel"}
  /\ ret = "nil" => cardCh.closed
  /\ cardCh.closed =>
       /\ ret = "nil"
       /\ \A t \in LiveTasks : wgPageScan[t] = 0
       /\ \A h \in hist.emitted : SentCount(h) = 1
       /\ \A e \in ExtractIds : ew[e].pc \in {"range", "exit"}
       /\ cardSelCh.buf = <<>> /\ cardSelCh.closed
       /\ InFlight = 0
C2_Witness ==
  /\ cardCh.closed /\ ntasks = 2
  /\ Cardinality(hist.emitted) = 2
  /\ Len(cardCh.buf) > 0

\* C3: a batch call (Cards) with a rejected configuration gets the error
\* back: aggregate is never stuck before it has returned.
C3_BatchReturnsError ==
  (caller = "Cards" /\ ConfigFault(cfg)) =>
     (callerPc = "returned" \/ ENABLED Next)

\* C4: under fair scheduling CardsStream ends: with an error return, or by
\* closing the output channel and returning nil, also when detail requests,
\* image requests or extractions have failed.
C4_EventuallyCloses ==
  <>(ret \notin {"none", "nil"} \/ (ret = "nil" /\ cardCh.closed))
C4_Witness ==
  /\ ret = "nil" /\ cardCh.closed
  /\ hist.otherFault /\ pool.out = 1

\* C5: when the output channel is closed, exactly one Card has been sent
\* for every item of every page that was counted as scanned.
C5_EveryItemOneCard ==
  cardCh.closed =>
    \A t \in LiveTasks : \A p \in Pages :
      hist.doneScan[t][p] >= 1 =>
        \A h \in PageItems(t, p) : SentCount(h) = 1

\* C6 (Retry): when nothing but listing-page requests fails, a page is
\* forwarded to the scan stage at most once, scanned at most once and
\* counted done at most once, whatever the number of failed attempts; and at
\* the nil return every requested page has been forwarded, scanned and
\* counted once and exactly one Card was sent for each item it lists, as
\* when its first attempt succeeds.
C6_Retry ==
  ~hist.otherFault =>
    \A t \in LiveTasks : \A p \in Pages :
      /\ hist.forwarded[t][p] <= 1
      /\ hist.scanned[t][p] <= 1
      /\ hist.doneScan[t][p] <= 1
      /\ (ret = "nil" /\ p \in RequestedPages(t)) =>
           /\ hist.forwarded[t][p] = 1
           /\ hist.scanned[t][p] = 1
           /\ hist.doneScan[t][p] = 1
           /\ \A h \in PageItems(t, p) : SentCount(h) = 1
C6_Witness ==
  /\ ret = "nil" /\ ~hist.otherFault
  /\ hist.lateOk = maxRetries - 1
  /\ Cardinality(hist.sent) >= 2

\* C7: a fetch worker makes at most maxRetries attempts for a dequeued
\* request and stops at the first 200; then it either appends that response
\* to pageRespCh and leaves pageURLCh alone, or, after maxRetries failed
\* attempts, appends the same link to pageURLCh and leaves pageRespCh alone;
\* after either it is back at its range loop.
C7_Positions ==
  \A t \in Tasks : \A w \in FetchIds :
    LET r == fw[t][w] IN
    /\ r.attempt <= maxRetries
    /\ r.pc = "attempt" => r.attempt < maxRetries
    /\ r.pc = "forward" => r.outcome = "ok" /\ r.attempt < maxRetries
    /\ r.pc = "requeue" => r.outcome # "ok" /\ r.attempt = maxRetries
C7_Steps ==
  \A t \in Tasks : \A w \in FetchIds :
    LET r == fw[t][w]  q == fw'[t][w] IN
    /\ (r.pc = "attempt" /\ q # r) =>
         /\ q.link = r.link
         /\ pageURLCh'[t] = pageURLCh[t] /\ pageRespCh'[t] = pageRespCh[t]
         /\ q.outcome = "ok" => q.pc = "forward"
         /\ q.outcome # "ok" => q.pc \in {"attempt", "requeue"}
                                /\ q.attempt = r.attempt + 1
    /\ (r.pc = "forward" /\ q # r) =>
         /\ q.pc = "range"
         /\ pageRespCh'[t].buf = Append(pageRespCh[t].buf, r.link)
         /\ pageURLCh'[t] = pageURLCh[t]
    /\ (r.pc = "requeue" /\ q # r) =>
         /\ q.pc = "range"
         /\ pageURLCh'[t].buf = Append(pageURLCh[t].buf, r.link)
         /\ pageRespCh'[t] = pageRespCh[t]
C7_BoundedAttempts == [](C7_Positions) /\ [][C7_Steps]_vars
C7_Witness ==
  /\ hist.requeued
  /\ \E t \in Tasks : \E w \in FetchIds :
       fw[t][w].pc = "range" /\ Len(pageURLCh[t].buf) = 1

\* C8: the client of a fetch attempt is banned exactly when the attempt
\* ended in a transport error or a status other than 200, and readded
\* exactly when it returned 200; every attempt takes one client from the
\* pool and gives it back in one of the two ways.
C8_Clients ==
  \A t \in Tasks : \A w \in FetchIds :
    LET r == fw[t][w] IN
    r.outcome # "none" =>
      /\ r.client \in {"banned", "readded"}
      /\ r.client = "banned" <=> r.outcome \in {"err", "bad"}
      /\ r.client = "readded" <=> r.outcome = "ok"
C8_Steps ==
  \A t \in Tasks : \A w \in FetchIds :
    (fw[t][w].pc = "attempt" /\ fw'[t][w] # fw[t][w]) =>
       /\ pool'.out = pool.out
       /\ fw'[t][w].outcome # "none"
C8_BanOrReadd == [](C8_Clients) /\ [][C8_Steps]_vars
C8_Witness ==
  \E t \in Tasks : \E w \in FetchIds :
    /\ fw[t][w].pc = "forward" /\ fw[t][w].attempt = 2
    /\ fw[t][w].client = "readded"

\* C9: wgPageScan of a task is its page count less the iterations skipped
\* by the start page and the pages counted done by the scan stage; a page
\* is counted done at most once, and only after it was enqueued and its
\* listing parsed; the task's queues are closed only with the counter at
\* zero, the enqueue loop over and every enqueued page counted done.
C9_Counter ==
  \A t \in Tasks :
    pageURLCh[t].made =>
      /\ wgPageScan[t] = lastPage[t] - hist.skipped[t]
                           - SumTo(hist.doneScan[t], MaxLastPage)
      /\ \A p \in Pages :
           /\ hist.doneScan[t][p] <= 1
           /\ hist.doneScan[t][p] <= hist.scanned[t][p]
           /\ hist.doneScan[t][p] <= hist.enqueued[t][p]
      /\ (pageURLCh[t].closed \/ pageRespCh[t].closed) =>
           /\ wgPageScan[t] = 0
           /\ hist.skipped[t] + SumTo(hist.enqueued[t], MaxLastPage)
                = lastPage[t]
           /\ \A p \in Pages : hist.doneScan[t][p] = hist.enqueued[t][p]
C9_Witness ==
  /\ pageURLCh[1].closed
  /\ hist.skipped[1] = 1 /\ hist.requeued
  /\ SumTo(hist.doneScan[1], MaxLastPage) = 1

\* C10: when a page has been counted done no scan worker is still working
\* on it: the worker that counts it has gone through all its items, holds
\* no client, and every handle it produced is on cardSelCh or beyond, and
\* counted in wgCardSel, which equals the handles in flight. Unless a
\* detail request failed, a handle was produced for every item of the page.
C10_DoneAfterScan ==
  /\ wgCardSel = InFlight
  /\ \A t \in Tasks : \A w \in ScanIds :
       sw[t][w].pc = "done" =>
         sw[t][w].idx = site[sw[t][w].page] /\ ~sw[t][w].held
  /\ \A t \in LiveTasks : \A p \in Pages :
       hist.doneScan[t][p] >= 1 =>
         /\ \A w \in ScanIds : sw[t][w].page # p
         /\ (cfg.Language = Japanese \/ ~hist.otherFault) =>
              PageItems(t, p) \subseteq hist.emitted
C10_Witness ==
  /\ cfg.Language = English
  /\ hist.doneScan[1][2] = 1 /\ site[2] = 2
  /\ wgCardSel = 2

\* the number of positions of sequence q that hold v
Occurrences(q, v) == Cardinality({i \in 1..Len(q) : q[i] = v})

\* C11: a scan worker whose listing page did not parse has not counted the
\* page done and has emitted no handle for it; its next step appends the
\* page's URL to the task's pageURLCh, where it then stands once, and
\* leaves wgPageScan, wgCardSel and cardSelCh alone; the worker is then
\* back at its range loop.
C11_Failed ==
  \A t \in Tasks : \A w \in ScanIds :
    sw[t][w].pc = "putback" =>
      /\ hist.doneScan[t][sw[t][w].page] = 0
      /\ hist.scanned[t][sw[t][w].page] = 0
      /\ PageItems(t, sw[t][w].page) \cap hist.emitted = {}
      /\ Occurrences(pageURLCh[t].buf, sw[t][w].page) = 0
      /\ Occurrences(pageRespCh[t].buf, sw[t][w].page) = 0
C11_Steps ==
  \A t \in Tasks : \A w \in ScanIds :
    LET r == sw[t][w]  q == sw'[t][w] IN
    /\ (r.pc = "parse" /\ q.pc = "putback") =>
         /\ q.page = r.page
         /\ UNCHANGED <<taskChans, wgCardSel, cardSelCh>>
         /\ hist'.doneScan = hist.doneScan /\ hist'.emitted = hist.emitted
    /\ (r.pc = "putback" /\ q # r) =>
         /\ q.pc = "range"
         /\ pageURLCh'[t].buf = Append(pageURLCh[t].buf, r.page)
         /\ Occurrences(pageURLCh'[t].buf, r.page) = 1
         /\ UNCHANGED <<pageRespCh, wgPageScan, wgCardSel, cardSelCh>>
         /\ hist'.doneScan = hist.doneScan /\ hist'.emitted = hist.emitted
C11_ParseFailure == [](C11_Failed) /\ [][C11_Steps]_vars
C11_Witness ==
  \E t \in Tasks :
    /\ hist.otherFault /\ ~hist.requeued /\ faults = 1
    /\ sw[t][1].pc = "range"
    /\ Len(pageURLCh[t].buf) = 1
    /\ hist.forwarded[t][Head(pageURLCh[t].buf)] = 1
    /\ hist.scanned[t][Head(pageURLCh[t].buf)] = 0
    /\ wgPageScan[t] = lastPage[t]

\* C12: an extract worker that holds an item has not yet sent its Card, or
\* has sent exactly one and still owes wgCardSel.Done(); from the receipt of
\* a handle it goes on to send one Card for it and then to decrement
\* wgCardSel by one, also when extractData panicked inside (it then sends
\* the Card extractData returned), and it is then back at its range loop,
\* which it leaves only when cardSelCh is closed and drained.
C12_Holding ==
  /\ \A h \in hist.emitted : SentCount(h) <= 1
  /\ \A e \in ExtractIds :
       /\ ew[e].pc \in {"image", "send"} =>
            SentCount(ew[e].item) = 0 /\ wgCardSel >= 1
       /\ ew[e].pc = "wgdone" =>
            SentCount(ew[e].item) = 1 /\ wgCardSel >= 1
       /\ ew[e].pc = "exit" => Drained(cardSelCh)
C12_Steps ==
  \A e \in ExtractIds :
    LET r == ew[e]  q == ew'[e] IN
    /\ (r.pc = "range" /\ q # r /\ cardSelCh' # cardSelCh) =>
         /\ q.item = Head(cardSelCh.buf)
         /\ q.pc \in {"image", "send"}
    /\ (r.pc = "image" /\ q # r) =>
         q.item = r.item /\ q.pc \in {"image", "send"}
    /\ (r.pc = "send" /\ q # r) =>
         /\ q.pc = "wgdone" /\ q.item = r.item
         /\ cardCh'.buf = Append(cardCh.buf, CardOf(r))
         /\ wgCardSel' = wgCardSel
    /\ (r.pc = "wgdone" /\ q # r) =>
         /\ q.pc = "range"
         /\ wgCardSel' = wgCardSel - 1
         /\ cardCh' = cardCh
C12_OneCardPerHandle == [](C12_Holding) /\ [][C12_Steps]_vars
C12_Witness ==
  \E e \in ExtractIds :
    /\ hist.faultedBy = e
    /\ ew[e].pc = "wgdone" /\ ~ew[e].faulted
    /\ Cardinality(hist.sent) = 2

\* s has sub as a substring
HasSub(s, sub) ==
  \E i \in 1..Len(s) :
    i + Len(sub) - 1 <= Len(s) /\ Slice(s, i, i + Len(sub) - 1) = sub

\* C18: with d the raw number in which every "%2B" has become "+",
\* sanitizeCardNumber yields d with every "+" that is not its last letter
\* turned into a space and every other letter as it is; the result holds no
\* "%2B" and at most one "+", its last letter; "TSK/S82-E070SSP%2B" gives
\* "TSK/S82-E070SSP+" and "RWBY/BRO2021-01+PR" gives "RWBY/BRO2021-01 PR".
C18_Sanitize ==
  (unit.kind = "number" /\ unit.pc # "raw") =>
    LET d == ReplaceAll(unit.raw, PercentTwoB, <<"+">>)
        cn == unit.cn
    IN /\ Len(cn) = Len(d)
       /\ Len(d) = Len(unit.raw) - 2 * Count(d, "+") + 2 * Count(unit.raw, "+")
       /\ \A i \in 1..Len(d) :
            cn[i] = IF d[i] = "+" /\ i < Len(d) THEN " " ELSE d[i]
       /\ ~HasSub(cn, PercentTwoB)
       /\ Count(cn, "+") <= 1
       /\ Count(cn, "+") = 1 => cn[Len(cn)] = "+"
       /\ unit.raw = TSK_E070SSP =>
            cn = Slice(TSK_E070SSP, 1, 15) \o <<"+">>
       /\ unit.raw = RWBY_01PR =>
            cn = Slice(RWBY_01PR, 1, 15) \o <<" ", "P", "R">>
C18_Witness ==
  /\ unit.kind = "number" /\ unit.pc = "sanitized"
  /\ unit.raw = <<"B", "+", "%", "2", "B">>
  /\ unit.cn = <<"B", " ", "+">>

\* the last position of c in s, 0 when there is none
LastPos(s, c) == LastIndex(s, c) + 1

\* <letters and digits>, optionally followed by one final "+"
IsId(s) ==
  /\ Len(s) > 0
  /\ LET body == IF s[Len(s)] = "+" THEN Slice(s, 1, Len(s) - 1) ELSE s
     IN Len(body) > 0 /\ AllIn(body, AlNum)

\* s ends with <setID>/<release>-<id>: its last "/" follows a letter or a
\* digit, what lies between that "/" and the last "-" is a non-empty run of
\* letters, digits and hyphens, and what follows the last "-" is an id
StrictForm(s) ==
  LET sl == LastPos(s, "/")
      hy == LastPos(s, "-")
  IN /\ sl > 1 /\ s[sl - 1] \in AlNum
     /\ sl + 1 < hy
     /\ AllIn(Slice(s, sl + 1, hy - 1), AlNumHyphen)
     /\ IsId(Slice(s, hy + 1, Len(s)))

\* the whole of s is <setID>/<release>-<id>
WholeForm(s) ==
  StrictForm(s) /\ AllIn(Slice(s, 1, LastPos(s, "/") - 1), AlNum)

\* C19: when the sanitized number ends with <setID>/<release>-<id>,
\* parseCardNumber returns the strict decomposition: setID is the run of
\* letters and digits before the "/", non-empty; release is everything from
\* the "/" to the last "-"; id is what follows the last "-", non-empty, a
\* final "+" included.  A raw number that is wholly of that form is not
\* changed by sanitizeCardNumber and its setID is all that precedes the "/".
\* "BD/EN-W03-004" gives release "EN-W03" and id "004".
C19_Strict ==
  (unit.kind = "number" /\ unit.pc = "parsed" /\ StrictForm(unit.cn)) =>
    LET cn == unit.cn
        sl == LastPos(cn, "/")
        hy == LastPos(cn, "-")
        p == unit.parts
    IN /\ p.setID # <<>> /\ AllIn(p.setID, AlNum)
       /\ p.setID = Slice(cn, sl - Len(p.setID), sl - 1)
       /\ sl - Len(p.setID) > 1 => cn[sl - Len(p.setID) - 1] \notin AlNum
       /\ p.release = Slice(cn, sl + 1, hy - 1)
       /\ p.id = Slice(cn, hy + 1, Len(cn)) /\ p.id # <<>>
       /\ cn[Len(cn)] = "+" => p.id[Len(p.id)] = "+"
       /\ WholeForm(unit.raw) =>
            cn = unit.raw /\ p.setID = Slice(cn, 1, sl - 1)
       /\ unit.raw = BD_EN_W03 =>
            /\ p.setID = <<"B", "D">>
            /\ p.release = <<"E", "N", "-", "W", "0", "3">>
            /\ p.id = <<"0", "0", "4">>
\* the permissive split of "BD/EN-W03-004" would give release "EN"
C19_Witness ==
  /\ unit.kind = "number" /\ unit.pc = "parsed" /\ unit.raw = BD_EN_W03
  /\ WholeForm(unit.raw)
  /\ Split(Split(unit.cn, "/")[2], "-")[1] = <<"E", "N">>
  /\ unit.parts.release # <<"E", "N">>

\* the digits that s ends with
RECURSIVE TrailingDigits(_)
TrailingDigits(s) ==
  IF Len(s) > 0 /\ s[Len(s)] \in Digits
    THEN TrailingDigits(Slice(s, 1, Len(s) - 1)) \o <<s[Len(s)]>>
    ELSE <<>>

\* the trailing run of digits of release when a letter or a hyphen stands
\* before it, "" otherwise
TrailingPackID(release) ==
  LET t == TrailingDigits(release)
      k == Len(release) - Len(t)
  IN IF Len(t) > 0 /\ k >= 1 /\ release[k] \in LetterHyphen THEN t ELSE <<>>

\* C20: for a number that is wholly <setID>/<release>-<id>, the release pack
\* id returned by parseCardNumber is the trailing run of digits of the
\* release, preceded by a letter or a hyphen, and is empty when the release
\* does not end in digits.
C20_PackID ==
  (unit.kind = "number" /\ unit.pc = "parsed" /\ WholeForm(unit.raw)) =>
    unit.parts.releasePackID = TrailingPackID(unit.parts.release)

\* the runs of extractData on the fragment so far
Runs == IF unit.kind = "fragment" THEN 1..Len(unit.cards) ELSE {}

\* C13: the Card returned by a run of extractData in which a panic was
\* recovered still holds the card number read before the panic.
C13_PartialCard ==
  \A i \in Runs :
    unit.panics[i] =>
      unit.cards[i].CardNumber
        \in {unit.orig.number, sanitizeCardNumber(unit.orig.number)}

\* C14: on either site the Card of a run without a panic has as CardNumber
\* the number the fragment prints with sanitizeCardNumber applied to it; when
\* that number has no "/", SetID, Release, ReleasePackID and ID are empty and
\* CardNumber is still set.
C14_CardNumber ==
  \A i \in Runs :
    ~unit.panics[i] =>
      LET c == unit.cards[i]
      IN /\ c.CardNumber = sanitizeCardNumber(unit.orig.number)
         /\ ~Contains(unit.orig.number, "/") =>
              /\ c.SetID = <<>> /\ c.Release = <<>>
              /\ c.ReleasePackID = <<>> /\ c.ID = <<>>
              /\ c.CardNumber # <<>>

\* C15: in the Card of a run without a panic, on both sites and for every
\* card type, each of Level, Cost, Power and Soul is empty, and so is not
\* "0", when the text of its field in the fragment is the dash.
C15_DashIsEmpty ==
  \A i \in Runs :
    ~unit.panics[i] =>
      LET c == unit.cards[i]
          f == unit.orig
      IN /\ f.level = <<"-">> => c.Level = <<>>
         /\ f.cost = <<"-">> => c.Cost = <<>>
         /\ f.power = <<"-">> => c.Power = <<>>
         /\ (f.soul.present /\ f.soul.text = <<"-">>) => c.Soul = <<>>

C17_Idempotent ==
  /\ \A i, j \in Runs : unit.cards[i] = unit.cards[j]
  /\ unit.kind = "fragment" => unit.icons = triggersMap
\* two runs on a fragment whose ability paragraph has an icon, which the
\* first run replaced in the fragment
C17_Witness ==
  /\ unit.kind = "fragment" /\ Len(unit.cards) = 2
  /\ ~unit.panics[1] /\ ~unit.panics[2]
  /\ \E k \in 1..Len(unit.orig.ability) :
       /\ unit.orig.ability[k] = ImgNode(TRUE, <<"soul">>)
       /\ unit.frag.ability[k] = TextNode(<<"[", "SOUL", "]">>)
  /\ unit.cards[1].Text # <<>>

\* the first position of c in s, 0 when there is none
FirstPos(s, c) ==
  IF Contains(s, c) THEN CHOOSE i \in Positions(s, c) :
                           \A j \in Positions(s, c) : i <= j
                    ELSE 0
\* s cut at the first c: what stands before it and what stands after it
CutAtFirst(s, c) ==
  [before |-> Slice(s, 1, FirstPos(s, c) - 1),
   after |-> Slice(s, FirstPos(s, c) + 1, Len(s))]

\* C21: parseCardNumber returns for every string; when the string does not
\* end with <setID>/<release>-<id> it is cut at its first "/" and what
\* follows at its first "-": setID is what stands before the "/", release
\* what stands before the "-", id what stands after the "-"; when the string
\* has no "/" the four fields are empty.
C21_PermissiveSplit ==
  (unit.kind = "number" /\ unit.pc = "parsed" /\ ~StrictForm(unit.cn)) =>
    LET cn == unit.cn
        p == unit.parts
        bySlash == CutAtFirst(cn, "/")
        byHyphen == CutAtFirst(bySlash.after, "-")
    IN IF ~Contains(cn, "/")
         THEN p = NoParts
         ELSE /\ p.setID = bySlash.before
              /\ Contains(bySlash.after, "-") =>
                   p.release = byHyphen.before /\ p.id = byHyphen.after

\* the Cards that have arrived on cardCh so far, the consumed ones first
Arrived == cards \o cardCh.buf

\* C22: when Cards is the caller, the Cards that arrived on cardCh are
\* those sent by the extract workers, one for each send; a step either
\* leaves the arrivals alone or adds one Card at their end, and clr.cards
\* only grows by the Card at the head of cardCh; aggregate has returned only
\* when reduce has left its range loop over the closed and drained cardCh,
\* and clr.cards then holds every Card that was sent, once, in that order.
C22_Consumed ==
  caller = "Cards" =>
    /\ Len(Arrived) = Cardinality(hist.sent)
    /\ \A i \in 1..Len(Arrived) :
         \/ Arrived[i] = ZeroCard /\ hist.faultedBy # 0
         \/ \E h \in hist.emitted :
              /\ Arrived[i] = [number |-> h]
              /\ Occurrences(Arrived, Arrived[i]) = SentCount(h)
    /\ callerPc = "returned" =>
         /\ reducerPc = "done" /\ Drained(cardCh)
         /\ ret = "nil"
         /\ cards = Arrived
C22_Steps ==
  caller = "Cards" =>
    /\ \/ Arrived' = Arrived
       \/ \E e \in ExtractIds : Arrived' = Append(Arrived, CardOf(ew[e]))
    /\ \/ cards' = cards
       \/ CanRecv(cardCh) /\ cards' = Append(cards, Head(cardCh.buf))
RECURSIVE OfRelease(_, _)
OfRelease(q, r) ==
  IF q = <<>> THEN <<>>
  ELSE (IF Head(q).Release = r THEN <<Head(q)>> ELSE <<>>)
         \o OfRelease(Tail(q), r)

\* C23: a call of Boosters during which Cards arrive on cardCh does not end
\* in a panic, and the map it returns has one Booster for each release code
\* r of an arrived Card, with ReleaseCode r and, as its Cards, the arrived
\* Cards of Release r in their order of arrival.
C23_Grouped ==
  unit.kind = "boosters" =>
    /\ unit.panicked = ""
    /\ unit.callerPc = "returned" =>
         LET m == unit.boosterMap.entries
         IN /\ DOMAIN m = {unit.run[i].Release : i \in 1..Len(unit.run)}
            /\ \A r \in DOMAIN m :
                 /\ m[r].ReleaseCode = r
                 /\ m[r].Cards = OfRelease(unit.run, r)

\* the errors CardsStream returns for a fault of the configuration
ConfigErrors ==
  {"unsupported language", "failed to get new cookiejar",
   "can't use title number"}

\* C24: when CardsStream has returned the error of a configuration fault,
\* the proxy pool has not been started, no request has been made, no page
\* count has been probed and no worker has been launched.
C24_ErrorBeforeNetwork ==
  ret \in ConfigErrors =>
    /\ ~pool.started /\ ~pool.netreq /\ pool.out = 0
    /\ ntasks = 0 /\ \A t \in Tasks : lastPage[t] = 0
    /\ \A t \in Tasks :
         /\ closer[t] = "unborn"
         /\ \A w \in FetchIds : fw[t][w].pc = "unborn"
         /\ \A w \in ScanIds : sw[t][w].pc = "unborn"
    /\ \A e \in ExtractIds : ew[e].pc = "unborn"

\* C25: CardsStream returns nil or the error of a configuration fault; a
\* failed request, the page-count probe and the recent-release listing
\* included, never shows as its error.
C25_OnlyConfigErrors == ret \in {"none", "nil"} \cup ConfigErrors

\* C26: every request of a fetch worker but its first is issued at least
\* minTimeBetweenRequests after the request the worker issued before it,
\* however that one ended, also when it is attempt 0 for the next link.
C26_MinDelay ==
  (unit.kind = "worker" /\ unit.gap # -1) =>
    unit.gap >= minTimeBetweenRequests

RECURSIVE SumSeq(_)
SumSeq(q) == IF q = <<>> THEN 0 ELSE Head(q) + SumSeq(Tail(q))

FetchHolds(t, w, p) ==
  fw[t][w].pc \in {"attempt", "forward", "requeue"} /\ fw[t][w].link = p
ScanHolds(t, w, p) ==
  sw[t][w].pc \notin {"unborn", "range", "exit"} /\ sw[t][w].page = p
\* the number of places page p of task t is in
Places(t, p) ==
    Count(pageURLCh[t].buf, p)
  + Cardinality({w \in FetchIds : FetchHolds(t, w, p)})
  + Count(pageRespCh[t].buf, p)
  + Cardinality({w \in ScanIds : ScanHolds(t, w, p)})
\* page p of task t has been enqueued and is not yet done
Pending(t, p) == hist.enqueued[t][p] >= 1 /\ hist.doneScan[t][p] = 0
C27_InOnePlace ==
  \A t \in Tasks : \A p \in Pages :
    /\ Places(t, p) = IF Pending(t, p) THEN 1 ELSE 0
    /\ Pending(t, p) => ~pageURLCh[t].closed /\ ~pageRespCh[t].closed
\* a worker that has exhausted a retry round does nothing with its page but
\* put it at the back of the task's page-request queue
C27_Requeues ==
  \A t \in Tasks : \A w \in FetchIds :
    fw[t][w].pc = "requeue" /\ fw'[t][w] # fw[t][w]
      => /\ pageURLCh'[t].buf = Append(pageURLCh[t].buf, fw[t][w].link)
         /\ fw'[t][w].pc = "range"
FromStart(t) == {p \in Pages : Max(1, cfg.PageStart) <= p /\ p <= lastPage[t]}
\* C28: no page below the start page is ever enqueued, no page is enqueued
\* twice, and once CardsStream has returned nil every page from
\* max(1, PageStart) to the task's last page has been enqueued exactly once,
\* in forward and in reverse order.
C28_FromStartPage ==
  \A t \in Tasks :
    /\ \A p \in Pages :
         /\ hist.enqueued[t][p] <= 1
         /\ hist.enqueued[t][p] = 1 => p >= cfg.PageStart
    /\ pc = "returned" /\ ret = "nil" /\ t <= ntasks
         => \A p \in FromStart(t) : hist.enqueued[t][p] = 1
\* the names of the icons of a trigger field, each translated by itself
Translated(stems) ==
  [i \in 1..Len(stems) |-> NameLetters(Lookup(triggersMap, stems[i]))]
\* C29: the Triggers of an extracted card are the names of the icons of the
\* item's trigger field, one entry per icon in document order, the empty
\* name for an icon whose stem is not in the table.
C29_OnePerIcon ==
  unit.kind = "fragment" =>
    \A n \in 1..Len(unit.cards) :
      ~unit.panics[n] =>
        unit.cards[n].Triggers = Translated(unit.orig.triggers)
\* the requests made so far for the link the worker is at are r.retries; the
\* next one is at most the maxRetries-th
C31_AtMostThree ==
  \A t \in Tasks : \A w \in ScanIds :
    sw[t][w].pc = "detail" =>
      cfg.Language = English /\ sw[t][w].retries < maxRetries
\* one detail request of a scan worker ends in one of three ways: it failed
\* and is repeated for the same link, or the link is left without a handle,
\* or it returned 200, parsed, and the worker goes on to emit the handle of
\* this link; the handle that is sent is the one of the link the worker is at,
\* and the worker goes to the next link only then
C31_Steps ==
  \A t \in Tasks : \A w \in ScanIds :
    LET r == sw[t][w]
        r2 == sw'[t][w]
        got == IF r.held THEN pool.out ELSE pool.out + 1
    IN /\ r.pc = "detail" /\ r2 # r =>
            \/ /\ pool'.out = got /\ r.retries + 1 < maxRetries
               /\ r2 = [r EXCEPT !.retries = @ + 1, !.held = TRUE]
               /\ wgCardSel' = wgCardSel /\ cardSelCh' = cardSelCh
            \/ /\ pool'.out = got /\ r.retries + 1 = maxRetries
               /\ r2 = NextItem(r)
               /\ wgCardSel' = wgCardSel /\ cardSelCh' = cardSelCh
            \/ /\ pool'.out = got - 1
               /\ r2 = NextItem(r)
               /\ wgCardSel' = wgCardSel /\ cardSelCh' = cardSelCh
            \/ /\ pool'.out = got - 1
               /\ r2 = [r EXCEPT !.pc = "emit", !.held = FALSE]
               /\ wgCardSel' = wgCardSel + 1 /\ cardSelCh' = cardSelCh
       /\ r.pc = "emit" /\ r2 # r =>
            /\ cardSelCh'.buf = Append(cardSelCh.buf, <<t, r.page, r.idx>>)
            /\ r2 = NextItem(r)
       /\ r2.idx # r.idx /\ r.pc \notin {"range", "parse", "done"} =>
            r.pc \in {"detail", "emit"}
\* C31: for each link of an English listing page the scan worker makes at
\* most maxRetries detail requests, one after the other, stops at the first
\* 200, sends the handle of the link exactly when a request returned 200 and
\* its body parsed, and turns to the next link only when the link's fetch
\* (and the send of its handle) has ended.
C31_DetailFetch == []C31_AtMostThree /\ [][C31_Steps]_vars
\* the third detail request of a link returned 200 and its handle is about
\* to be sent
C31_Witness ==
  \E t \in Tasks : \E w \in ScanIds :
    /\ cfg.Language = English
    /\ sw[t][w].pc = "emit" /\ sw[t][w].retries = maxRetries - 1
\* the steps of every goroutine but the fetch and scan workers of task t
StepsBut(t) ==
  \/ CardsStream
  \/ \E u \in Tasks : closerRoutine(u)
  \/ \E u \in Tasks \ {t} : \E w \in FetchIds : pageFetchWorker(u, w)
  \/ \E u \in Tasks \ {t} : \E w \in ScanIds : pageScanWorker(u, w)
  \/ \E e \in ExtractIds : extractWorker(e)
  \/ reduce
  \/ aggregate
\* task u is through: its closer has closed its queues, every page enqueued
\* for it is done, and for every handle emitted for it a Card has been sent
\* on cardCh
Settled(u) ==
  /\ closer[u] = "exit" /\ wgPageScan[u] = 0
  /\ \A p \in Pages : hist.enqueued[u][p] >= 1 => hist.doneScan[u][p] >= 1
  /\ \A p \in Pages : \A i \in 1..MaxItems :
       <<u, p, i>> \in hist.emitted => \E x \in hist.sent : x[1] = <<u, p, i>>
\* a task that CardsStream has set up gets through, unless CardsStream
\* returns an error before it starts the workers
Served(u) ==
  <>[](u <= ntasks /\ lastPage[u] > 0 /\ ret \in {"none", "nil"}
         => Settled(u))
From(s, a) == Slice(s, a, Len(s))
\* link holds an expansion value: an href in which digits follow
\* "expansion=", an onclick with an argument list opened by "('"
Extractable(lang, link) ==
  /\ link.has
  /\ IF lang = English
       THEN \E i \in 1..Len(link.text) :
              /\ HasPrefix(From(link.text, i), ExpansionKey)
              /\ Len(link.text) >= i + Len(ExpansionKey)
              /\ link.text[i + Len(ExpansionKey)] \in Digits
       ELSE HasSub(link.text, <<"(", "'">>)
\* v is an expansion value of link: on the English site a whole run of
\* digits right after "expansion=", on the Japanese the text that follows a
\* "('" up to the "')" or the next "('"
Carries(lang, link, v) ==
  IF lang = English
    THEN /\ v # <<>> /\ AllIn(v, Digits)
         /\ \E i \in 1..Len(link.text) :
              LET rest == From(link.text, i + Len(ExpansionKey))
              IN /\ HasPrefix(From(link.text, i), ExpansionKey)
                 /\ HasPrefix(rest, v)
                 /\ Len(rest) > Len(v) => rest[Len(v) + 1] \notin Digits
    ELSE \E i \in 1..Len(link.text) :
           LET rest == From(link.text, i + 2)
           IN /\ HasPrefix(From(link.text, i), <<"(", "'">>)
              /\ HasPrefix(rest, v)
              /\ ~HasSub(v, <<"(", "'">>)
              /\ \/ Len(rest) = Len(v)
                 \/ HasPrefix(From(rest, Len(v) + 1), <<"'", ")">>)
                 \/ HasPrefix(From(rest, Len(v) + 1), <<"(", "'">>)
\* C33: the tasks made from the links handled so far are, in document order,
\* one for each link that holds an expansion value, with that value in its
\* form parameters; a link without one makes no task; CardsStream copies
\* each of them, with its form parameters, into one scrape task.
C33_OneTaskPerLink ==
  unit.kind = "recent" =>
    LET seen == SubSeq(unit.links, 1, unit.i)
        kept == SelectSeq(seen, LAMBDA l : Extractable(unit.lang, l))
    IN /\ Len(unit.tasks) = Len(kept)
       /\ \A k \in 1..Len(kept) :
            Carries(unit.lang, kept[k], unit.tasks[k].urlValues)
       /\ \A k \in 1..Len(unit.scrapeTasks) :
            unit.scrapeTasks[k].urlValues = unit.tasks[k].urlValues
       /\ unit.copied = Len(unit.scrapeTasks)
\* a list of two links of which only the second holds a value has made one
\* scrape task
C33_Witness ==
  /\ unit.kind = "recent" /\ Len(unit.links) = 2
  /\ ~Extractable(unit.lang, unit.links[1])
  /\ Extractable(unit.lang, unit.links[2])
  /\ Len(unit.scrapeTasks) = 1
  /\ unit.scrapeTasks[1].urlValues # <<>>
\* C34: a setID that parseCardNumber returns is not empty only when the
\* number holds a "/", and is then the text of the number before its first
\* "/".
C34_SetIDAtStart ==
  unit.kind = "number" /\ unit.pc = "parsed" /\ unit.parts.setID # <<>> =>
    /\ Contains(unit.cn, "/")
    /\ unit.parts.setID = Slice(unit.cn, 1, FirstPos(unit.cn, "/") - 1)
\* the scan workers that are between two detail requests of one link, and so
\* hold the client they took for it
Holders == {x \in Tasks \X ScanIds : sw[x[1]][x[2]].held}
\* C35: the clients that are out of the pool are those of the request
\* sequences under way: a fetch attempt and an image attempt give their
\* client back before they end, and a detail fetch that has ended, with or
\* without success, has given back the client it took.
C35_AllReleased == pool.out = Cardinality(Holders)
\* the channels of the pipeline
Channels ==
  <<cardSelCh, cardCh>> \o [t \in Tasks |-> pageURLCh[t]]
                        \o [t \in Tasks |-> pageRespCh[t]]
\* no goroutine has run into a send on a closed channel or a second close,
\* and who is to close a channel has not closed it yet
C36_NoPanic ==
  /\ panicked \notin {"send on closed channel", "close of closed channel"}
  /\ \A t \in Tasks :
       closer[t] # "exit" => ~pageURLCh[t].closed /\ ~pageRespCh[t].closed
  /\ pc # "close_card" /\ pc # "returned" => ~cardSelCh.closed
  /\ pc # "returned" => ~cardCh.closed
\* a closed channel stays closed and nothing is added to it
C36_Steps ==
  \A i \in 1..Len(Channels) :
    Channels[i].closed =>
      /\ Channels'[i].closed
      /\ Len(Channels'[i].buf) <= Len(Channels[i].buf)
\* C36: in every interleaving no goroutine sends on a closed channel and no
\* channel is closed twice: each channel has one closing step, taken once,
\* and after it nothing is sent on the channel; this holds for the initial
\* enqueue, the re-enqueue after a failed fetch round and after a failed
\* parse, the response queue, the handle queue and the Card channel.
C36_ClosedChannels == []C36_NoPanic /\ [][C36_Steps]_vars
\* every channel is closed at the end of a run in which a page was put back
\* after a failed fetch round
C36_Witness ==
  /\ hist.requeued /\ ret = "nil" /\ ntasks = 1
  /\ \A i \in {1, 2, 3, 3 + MaxTasks} : Channels[i].closed
\* the pages of task t that are enqueued and not yet counted done
PendingPages(t) == {p \in Pages : Pending(t, p)}
\* the handles an extract worker has taken and not yet counted done
Extracted == {e \in ExtractIds : ew[e].pc \in {"image", "send", "wgdone"}}
\* neither counter has been taken below zero; every Done still to come is
\* covered: the page counter by the pending pages, the item counter by the
\* handles that are queued or with an extract worker
C37_Covered ==
  /\ panicked # "negative WaitGroup counter"
  /\ \A t \in Tasks :
       /\ wgPageScan[t] >= Cardinality(PendingPages(t))
       /\ \A p \in Pages : hist.doneScan[t][p] <= 1
  /\ wgCardSel >= Len(cardSelCh.buf) + Cardinality(Extracted)
\* the item counter goes down by one, by an extract worker that has sent the
\* Card of its handle; when a handle is queued its increment has been made
C37_Steps ==
  /\ wgCardSel' < wgCardSel =>
       /\ wgCardSel' = wgCardSel - 1
       /\ \E e \in ExtractIds : ew[e].pc = "wgdone" /\ ew'[e].pc = "range"
  /\ Len(cardSelCh'.buf) > Len(cardSelCh.buf) =>
       wgCardSel = wgCardSel' /\ wgCardSel >= Len(cardSelCh'.buf)
  /\ \A t \in Tasks :
       wgPageScan'[t] < wgPageScan[t] => wgPageScan'[t] = wgPageScan[t] - 1
\* C37: the page counter of a task and the item counter never go below
\* zero: a page is counted done at most once and the counter covers the
\* pages still pending; every decrement of the item counter is made for a
\* handle whose increment was made before the handle was queued.
C37_NeverNegative == []C37_Covered /\ [][C37_Steps]_vars
\* both counters are back at zero after a skipped page, a scanned page and
\* its Cards
C37_Witness ==
  /\ ret = "nil" /\ hist.skipped[1] = 1 /\ hist.doneScan[1][2] = 1
  /\ wgPageScan[1] = 0 /\ wgCardSel = 0
  /\ Cardinality(hist.sent) >= 1
\* the page-request queue of task t has room for one more page
HasRoom(t) ==
  ~pageURLCh[t].closed /\ Len(pageURLCh[t].buf) < pageURLCh[t].cap
\* some worker of task t, or a goroutine further down the pipeline, can
\* take a step
CanGoOn(t) ==
  \/ ENABLED (\E w \in FetchIds : pageFetchWorker(t, w))
  \/ ENABLED (\E w \in ScanIds : pageScanWorker(t, w))
  \/ ENABLED (\E e \in ExtractIds : extractWorker(e))
  \/ ENABLED reduce
\* C38: the page-request queue of a task has the capacity of its page count,
\* and has room whenever CardsStream is about to enqueue a page, a fetch
\* worker to put one back after an exhausted round, or a scan worker after a
\* failed parse: these sends never block; and while a page of the task is
\* unfinished, a worker of the task or a stage after it can take a step.
C38_NeverBlocks ==
  \A t \in Tasks :
    /\ pageURLCh[t].made => pageURLCh[t].cap = lastPage[t]
    /\ pc = "enqueue" /\ ti = t /\ pi >= cfg.PageStart => HasRoom(t)
    /\ \A w \in FetchIds : fw[t][w].pc = "requeue" => HasRoom(t)
    /\ \A w \in ScanIds : sw[t][w].pc = "putback" => HasRoom(t)
    /\ (panicked = "" /\ \E p \in Pages : Pending(t, p)) => CanGoOn(t)
\* a fetch worker is about to put a page back while every other page of the
\* task is in the queue
C38_Witness ==
  \E t \in Tasks : \E w \in FetchIds :
    /\ fw[t][w].pc = "requeue" /\ lastPage[t] = 2
    /\ Len(pageURLCh[t].buf) = lastPage[t] - 1
\* every worker that CardsStream started has left its loop
AllExited ==
  /\ \A e \in ExtractIds : ew[e].pc = "exit"
  /\ \A t \in LiveTasks :
       /\ \A w \in FetchIds : fw[t][w].pc = "exit"
       /\ \A w \in ScanIds : sw[t][w].pc = "exit"
\* C39: under fair scheduling, once CardsStream has returned nil every fetch
\* worker, scan worker and extract worker it started leaves its loop, and
\* stays out: none remains blocked on a send or a receive.
C39_WorkersEnd == (ret = "nil") ~> []AllExited
\* the workers of two tasks have all ended
C39_Witness ==
  /\ ret = "nil" /\ ntasks = 2 /\ AllExited
  /\ \A t \in LiveTasks : lastPage[t] >= 1
\* C40: a level, cost or power text of the item that is not the dash stands
\* unchanged in the Card.
C40_OnlyTheDash ==
  unit.kind = "fragment" =>
    \A n \in 1..Len(unit.cards) :
      ~unit.panics[n] =>
        /\ unit.orig.level # <<"-">> => unit.cards[n].Level = unit.orig.level
        /\ unit.orig.cost # <<"-">> => unit.cards[n].Cost = unit.orig.cost
        /\ unit.orig.power # <<"-">> => unit.cards[n].Power = unit.orig.power
====
